---- MODULE Spec2Model ----
(***************************************************************************)
(* A model of the linked-list engine of jetsam-core (LinkedList.ts):       *)
(* LinkedList (singly linked) and DoublyLinkedList, over an explicit heap  *)
(* of nodes.  A node reference is an index into `nodes`; Nil is the        *)
(* `undefined` reference.  Nodes are never freed by the program (they are  *)
(* garbage once unreachable), so removed nodes stay in the heap with the   *)
(* links they had when they were removed.                                  *)
(***************************************************************************)
EXTENDS Integers, Sequences, FiniteSets, Bags, TLC

\* ---------------------------------------------------------------- bounds
MaxNodes == 3      \* nodes ever created on one list
MaxArgs  == 3      \* items passed to one push / unshift call
MaxInit  == 2      \* items passed to the constructor
MaxCursors == 2    \* iterator objects created on one list
NumElems == 2      \* distinct elements of sets and collections
MaxCollLen == 1    \* elements of one collection passed to a SetPlus method
MaxColls == 2      \* collections passed to one SetPlus method
NumKeys  == 2      \* distinct keys of maps
NumValues == 1     \* distinct numbers held as values and properties
NumItems == 2      \* distinct item values

Nil   == 0         \* the undefined node reference
Undef == 0         \* the undefined value returned for "no item"
This  == -1        \* `return this` of push / unshift

Items == 1..NumItems

RECURSIVE SeqsUpTo(_)
SeqsUpTo(n) ==
  IF n = 0 THEN {<<>>}
  ELSE LET S == SeqsUpTo(n - 1)
       IN S \cup {Append(s, i) : s \in {t \in S : Len(t) = n - 1}, i \in Items}

ArgSeqs  == SeqsUpTo(MaxArgs) \ {<<>>}
InitSeqs == SeqsUpTo(MaxInit)

VARIABLES
  variant,   \* "singly" (LinkedList) or "doubly" (DoublyLinkedList)
  nodes,     \* the heap: sequence of LinkedListNode records
  head,      \* LinkedList.head
  tail,      \* LinkedList.tail
  count,     \* LinkedList.count
  op,        \* the last call made on the list
  args,      \* the items passed to that call
  ret,       \* the value that call returned
  cursors,   \* the iterator objects that exist: a bag of iterator records
  scenario,  \* the test scenario being replayed: its items and its position
  recv,      \* the SetPlus / MapPlus a method is called on
  colls,     \* the collections passed to that method
  result     \* what that method returned

vars == <<variant, nodes, head, tail, count, op, args, ret,
          cursors, scenario, recv, colls, result>>

\* the variables of the linked list and of a call on it
listVars == <<variant, nodes, head, tail, count>>

\* no iterator exists, no scenario is replayed, no set or map is in use
NoCursors  == cursors = EmptyBag
NoScenario == scenario = <<>>
NoSets     == recv = <<>> /\ colls = <<>> /\ result = <<>>

\* ------------------------------------------------------------ the node
\* { item } : prev and next are absent on a fresh node
LinkedListNode(item) == [item |-> item, prev |-> Nil, next |-> Nil]

\* { item, prev } as built by the doubly linked createChain
LinkedListNodeWithPrev(item, p) == [item |-> item, prev |-> p, next |-> Nil]

\* the list object as a value: the heap and the three fields
Self == [nodes |-> nodes, head |-> head, tail |-> tail, count |-> count]

EmptyList == [nodes |-> <<>>, head |-> Nil, tail |-> Nil, count |-> 0]

\* ------------------------------------------------------ createChain
\* the for loop of LinkedList.createChain: last.next = { item }; last = last.next
\* mutant: the singly linked loop sets prev as the doubly linked one does
RECURSIVE LinkedList_createChainLoop_withPrev(_, _, _, _, _)
LinkedList_createChainLoop_withPrev(ns, first, last, others, cnt) ==
  IF others = <<>>
  THEN [nodes |-> ns, first |-> first, last |-> last, count |-> cnt]
  ELSE LET node == Len(ns) + 1
           ns1  == Append([ns EXCEPT ![last].next = node],
                          LinkedListNodeWithPrev(Head(others), last))
       IN LinkedList_createChainLoop_withPrev(ns1, first, node, Tail(others),
                                              cnt + 1)

RECURSIVE LinkedList_createChainLoop(_, _, _, _, _)
LinkedList_createChainLoop(ns, first, last, others, cnt) ==
  IF others = <<>>
  THEN [nodes |-> ns, first |-> first, last |-> last, count |-> cnt]
  ELSE LET node == Len(ns) + 1
           ns1  == Append([ns EXCEPT ![last].next = node],
                          LinkedListNode(Head(others)))
       IN LinkedList_createChainLoop(ns1, first, node, Tail(others), cnt + 1)

\* mutant: the chain reports one node however many it holds
LinkedList_createChain_countOne(ns, item, others) ==
  LET first == Len(ns) + 1
  IN [LinkedList_createChainLoop(Append(ns, LinkedListNode(item)),
                                 first, first, others, 1) EXCEPT !.count = 1]

LinkedList_createChain(ns, item, others) ==
  LET first == Len(ns) + 1
  IN LinkedList_createChainLoop(Append(ns, LinkedListNode(item)),
                                first, first, others, 1)

\* the for loop of DoublyLinkedList.createChain: node = { item, prev: last }
\* mutant: the doubly linked loop forgets prev
RECURSIVE DoublyLinkedList_createChainLoop_noPrev(_, _, _, _, _)
DoublyLinkedList_createChainLoop_noPrev(ns, first, last, others, cnt) ==
  IF others = <<>>
  THEN [nodes |-> ns, first |-> first, last |-> last, count |-> cnt]
  ELSE LET node == Len(ns) + 1
           ns1  == Append([ns EXCEPT ![last].next = node],
                          LinkedListNode(Head(others)))
       IN DoublyLinkedList_createChainLoop_noPrev(ns1, first, node,
                                                  Tail(others), cnt + 1)

RECURSIVE DoublyLinkedList_createChainLoop(_, _, _, _, _)
DoublyLinkedList_createChainLoop(ns, first, last, others, cnt) ==
  IF others = <<>>
  THEN [nodes |-> ns, first |-> first, last |-> last, count |-> cnt]
  ELSE LET node == Len(ns) + 1
           ns1  == Append([ns EXCEPT ![last].next = node],
                          LinkedListNodeWithPrev(Head(others), last))
       IN DoublyLinkedList_createChainLoop(ns1, first, node, Tail(others), cnt + 1)

\* mutant: the chain names its first node as its last
DoublyLinkedList_createChain_lastIsFirst(ns, item, others) ==
  LET first == Len(ns) + 1
  IN [DoublyLinkedList_createChainLoop(Append(ns, LinkedListNode(item)),
                                       first, first, others, 1)
        EXCEPT !.last = first]

DoublyLinkedList_createChain(ns, item, others) ==
  LET first == Len(ns) + 1
  IN DoublyLinkedList_createChainLoop(Append(ns, LinkedListNode(item)),
                                      first, first, others, 1)

\* ------------------------------------------- addChainToStart / ToEnd
\* mutant: the count grows by one whatever the length of the chain
LinkedList_addChainToStart_countOne(L, chain) ==
  LET ns1 == [chain.nodes EXCEPT ![chain.last].next = L.head]
  IN [nodes |-> ns1,
      head  |-> chain.first,
      tail  |-> IF L.tail = Nil THEN chain.last ELSE L.tail,
      count |-> L.count + 1]

\* mutant: the end of the chain is not pointed at the old head
LinkedList_addChainToStart_noLink(L, chain) ==
  [nodes |-> chain.nodes,
   head  |-> chain.first,
   tail  |-> IF L.tail = Nil THEN chain.last ELSE L.tail,
   count |-> L.count + chain.count]

\* L is the list before the call, chain the result of createChain on L.nodes
LinkedList_addChainToStart(L, chain) ==
  LET ns1 == [chain.nodes EXCEPT ![chain.last].next = L.head]
  IN [nodes |-> ns1,
      head  |-> chain.first,
      tail  |-> IF L.tail = Nil THEN chain.last ELSE L.tail,
      count |-> L.count + chain.count]

\* mutant: the chain replaces the tail instead of being linked after it
LinkedList_addChainToEnd_noLink(L, chain) ==
  [nodes |-> chain.nodes,
   head  |-> IF L.tail # Nil THEN L.head ELSE chain.first,
   tail  |-> chain.last,
   count |-> L.count + chain.count]

LinkedList_addChainToEnd(L, chain) ==
  LET ns1 == IF L.tail # Nil
             THEN [chain.nodes EXCEPT ![L.tail].next = chain.first]
             ELSE chain.nodes
  IN [nodes |-> ns1,
      head  |-> IF L.tail # Nil THEN L.head ELSE chain.first,
      tail  |-> chain.last,
      count |-> L.count + chain.count]

\* mutant: the old head's prev is not set to the end of the chain
DoublyLinkedList_addChainToStart_noPrev(L, chain) ==
  LET ns1 == IF L.head # Nil
             THEN [chain.nodes EXCEPT ![chain.last].next = L.head]
             ELSE chain.nodes
  IN [nodes |-> ns1,
      head  |-> chain.first,
      tail  |-> IF L.head # Nil THEN L.tail ELSE chain.last,
      count |-> L.count + chain.count]

\* mutant: an empty list does not get its tail from the chain
DoublyLinkedList_addChainToStart_noTail(L, chain) ==
  LET ns1 == IF L.head # Nil
             THEN [chain.nodes EXCEPT ![chain.last].next = L.head,
                                      ![L.head].prev = chain.last]
             ELSE chain.nodes
  IN [nodes |-> ns1,
      head  |-> chain.first,
      tail  |-> L.tail,
      count |-> L.count + chain.count]

DoublyLinkedList_addChainToStart(L, chain) ==
  LET ns1 == IF L.head # Nil
             THEN [chain.nodes EXCEPT ![chain.last].next = L.head,
                                      ![L.head].prev = chain.last]
             ELSE chain.nodes
  IN [nodes |-> ns1,
      head  |-> chain.first,
      tail  |-> IF L.head # Nil THEN L.tail ELSE chain.last,
      count |-> L.count + chain.count]

\* mutant: the first node of the chain gets no prev link to the old tail
DoublyLinkedList_addChainToEnd_noPrev(L, chain) ==
  LET ns1 == IF L.tail # Nil
             THEN [chain.nodes EXCEPT ![L.tail].next = chain.first]
             ELSE chain.nodes
  IN [nodes |-> ns1,
      head  |-> IF L.tail # Nil THEN L.head ELSE chain.first,
      tail  |-> chain.last,
      count |-> L.count + chain.count]

DoublyLinkedList_addChainToEnd(L, chain) ==
  LET ns1 == IF L.tail # Nil
             THEN [chain.nodes EXCEPT ![L.tail].next = chain.first,
                                      ![chain.first].prev = L.tail]
             ELSE chain.nodes
  IN [nodes |-> ns1,
      head  |-> IF L.tail # Nil THEN L.head ELSE chain.first,
      tail  |-> chain.last,
      count |-> L.count + chain.count]

\* --------------------------------------------------- virtual dispatch
createChain(v, ns, item, others) ==
  IF v = "doubly" THEN DoublyLinkedList_createChain(ns, item, others)
                  ELSE LinkedList_createChain(ns, item, others)

addChainToStart(v, L, chain) ==
  IF v = "doubly" THEN DoublyLinkedList_addChainToStart(L, chain)
                  ELSE LinkedList_addChainToStart(L, chain)

addChainToEnd(v, L, chain) ==
  IF v = "doubly" THEN DoublyLinkedList_addChainToEnd(L, chain)
                  ELSE LinkedList_addChainToEnd(L, chain)

\* ------------------------------------------------ constructor, push, unshift
\* mutant: only the first item is kept, the others are dropped
LinkedList_constructor_firstOnly(v, items) ==
  IF Len(items) > 0
  THEN addChainToEnd(v, EmptyList, createChain(v, <<>>, items[1], <<>>))
  ELSE EmptyList

LinkedList_constructor(v, items) ==
  IF Len(items) > 0
  THEN addChainToEnd(v, EmptyList, createChain(v, <<>>, items[1], Tail(items)))
  ELSE EmptyList

\* mutant: the chain is attached at the start instead of the end
LinkedList_push_atStart(v, L, item, others) ==
  addChainToStart(v, L, createChain(v, L.nodes, item, others))

LinkedList_push(v, L, item, others) ==
  addChainToEnd(v, L, createChain(v, L.nodes, item, others))

\* mutant: the chain is attached at the end instead of the start
LinkedList_unshift_atEnd(v, L, item, others) ==
  addChainToEnd(v, L, createChain(v, L.nodes, item, others))

LinkedList_unshift(v, L, item, others) ==
  addChainToStart(v, L, createChain(v, L.nodes, item, others))

\* ------------------------------------------------------- shift and pop
\* mutant: the tail is left behind when the last node is shifted off
LinkedList_shift_keepTail(L) ==
  LET node == L.head
  IN IF node = Nil
     THEN [list |-> L, ret |-> Undef]
     ELSE [list |-> [L EXCEPT !.head  = L.nodes[node].next,
                              !.count = L.count - 1],
           ret  |-> L.nodes[node].item]

\* mutant: the count is not decremented
LinkedList_shift_keepCount(L) ==
  LET node == L.head
  IN IF node = Nil
     THEN [list |-> L, ret |-> Undef]
     ELSE [list |-> [L EXCEPT !.head  = L.nodes[node].next,
                              !.tail  = IF L.tail = node
                                        THEN L.nodes[node].next ELSE L.tail],
           ret  |-> L.nodes[node].item]

\* mutant: the node taken off loses its next link
LinkedList_shift_unlink(L) ==
  LET node == L.head
  IN IF node = Nil
     THEN [list |-> L, ret |-> Undef]
     ELSE [list |-> [nodes |-> [L.nodes EXCEPT ![node].next = Nil],
                     head  |-> L.nodes[node].next,
                     tail  |-> IF L.tail = node
                               THEN L.nodes[node].next ELSE L.tail,
                     count |-> L.count - 1],
           ret  |-> L.nodes[node].item]

\* the result is the list after the call and the value returned
LinkedList_shift(L) ==
  LET node == L.head
  IN IF node = Nil
     THEN [list |-> L, ret |-> Undef]
     ELSE [list |-> [L EXCEPT !.head  = L.nodes[node].next,
                              !.tail  = IF L.tail = node
                                        THEN L.nodes[node].next ELSE L.tail,
                              !.count = L.count - 1],
           ret  |-> L.nodes[node].item]

\* mutant: the new head keeps its prev link to the removed node
DoublyLinkedList_shift_keepPrev(L) == LinkedList_shift(L)

DoublyLinkedList_shift(L) ==
  LET r  == LinkedList_shift(L)
      L1 == r.list
  IN IF L1.head # Nil
     THEN [list |-> [L1 EXCEPT !.nodes[L1.head].prev = Nil], ret |-> r.ret]
     ELSE r

\* mutant: the head is not cleared when the last node is popped
DoublyLinkedList_pop_keepHead(L) ==
  LET node == L.tail
  IN IF node = Nil
     THEN [list |-> L, ret |-> Undef]
     ELSE LET t == L.nodes[node].prev
          IN [list |-> [nodes |-> IF t = Nil THEN L.nodes
                                  ELSE [L.nodes EXCEPT ![t].next = Nil],
                        head  |-> L.head,
                        tail  |-> t,
                        count |-> L.count - 1],
              ret  |-> L.nodes[node].item]

\* mutant: the emptiness check is missing, the count is decremented anyway
DoublyLinkedList_pop_noGuard(L) ==
  LET node == L.tail
  IN IF node = Nil
     THEN [list |-> [L EXCEPT !.count = L.count - 1], ret |-> Undef]
     ELSE LET t == L.nodes[node].prev
          IN [list |-> [nodes |-> IF t = Nil THEN L.nodes
                                  ELSE [L.nodes EXCEPT ![t].next = Nil],
                        head  |-> IF t = Nil THEN Nil ELSE L.head,
                        tail  |-> t,
                        count |-> L.count - 1],
              ret  |-> L.nodes[node].item]

\* mutant: the item of the new tail is returned instead of the removed one
DoublyLinkedList_pop_wrongItem(L) ==
  LET node == L.tail
  IN IF node = Nil
     THEN [list |-> L, ret |-> Undef]
     ELSE LET t == L.nodes[node].prev
          IN [list |-> [nodes |-> IF t = Nil THEN L.nodes
                                  ELSE [L.nodes EXCEPT ![t].next = Nil],
                        head  |-> IF t = Nil THEN Nil ELSE L.head,
                        tail  |-> t,
                        count |-> L.count - 1],
              ret  |-> IF t = Nil THEN L.nodes[node].item ELSE L.nodes[t].item]

\* mutant: the new tail keeps its next link to the node taken off
DoublyLinkedList_pop_keepNext(L) ==
  LET node == L.tail
  IN IF node = Nil
     THEN [list |-> L, ret |-> Undef]
     ELSE LET t == L.nodes[node].prev
          IN [list |-> [nodes |-> L.nodes,
                        head  |-> IF t = Nil THEN Nil ELSE L.head,
                        tail  |-> t,
                        count |-> L.count - 1],
              ret  |-> L.nodes[node].item]

DoublyLinkedList_pop(L) ==
  LET node == L.tail
  IN IF node = Nil
     THEN [list |-> L, ret |-> Undef]
     ELSE LET t == L.nodes[node].prev
          IN [list |-> [nodes |-> IF t = Nil THEN L.nodes
                                  ELSE [L.nodes EXCEPT ![t].next = Nil],
                        head  |-> IF t = Nil THEN Nil ELSE L.head,
                        tail  |-> t,
                        count |-> L.count - 1],
              ret  |-> L.nodes[node].item]

\* mutant: DoublyLinkedList does not override shift
shift_notOverridden(v, L) == LinkedList_shift(L)

shift(v, L) ==
  IF v = "doubly" THEN DoublyLinkedList_shift(L) ELSE LinkedList_shift(L)

\* ------------------------------------------------------------ observers
length(L) == L.count

empty(L) == L.count = 0

first(L) == IF L.head = Nil THEN Undef ELSE L.nodes[L.head].item

last(L) == IF L.tail = Nil THEN Undef ELSE L.nodes[L.tail].item

\* A whole traversal by LinkedListForwardIterator.next from ptr: the items
\* yielded until ptr is undefined.  A traversal that is still going after
\* `fuel` steps is on a cycle; it is cut there and marked with Undef.
\* mutant: the traversal stops on the last node instead of after it
RECURSIVE ForwardItems_stopOnLast(_, _, _)
ForwardItems_stopOnLast(ns, ptr, fuel) ==
  IF ptr = Nil THEN <<>>
  ELSE IF ns[ptr].next = Nil THEN <<>>
  ELSE IF fuel = 0 THEN <<Undef>>
  ELSE <<ns[ptr].item>> \o ForwardItems_stopOnLast(ns, ns[ptr].next, fuel - 1)

RECURSIVE ForwardItems(_, _, _)
ForwardItems(ns, ptr, fuel) ==
  IF ptr = Nil THEN <<>>
  ELSE IF fuel = 0 THEN <<Undef>>
  ELSE <<ns[ptr].item>> \o ForwardItems(ns, ns[ptr].next, fuel - 1)

\* The same for LinkedListReverseIterator.next, which follows prev
RECURSIVE ReverseItems(_, _, _)
ReverseItems(ns, ptr, fuel) ==
  IF ptr = Nil THEN <<>>
  ELSE IF fuel = 0 THEN <<Undef>>
  ELSE <<ns[ptr].item>> \o ReverseItems(ns, ns[ptr].prev, fuel - 1)

\* for (const item of this) items.push(item)
toArray(L) == ForwardItems(L.nodes, L.head, Len(L.nodes))

\* return this.toArray()
toJSON(L) == toArray(L)

\* for (const item of items.riterator()) ...
riterator(L) == ReverseItems(L.nodes, L.tail, Len(L.nodes))

\* --------------------------------------------------------------- actions
Install(L) ==
  /\ nodes' = L.nodes
  /\ head'  = L.head
  /\ tail'  = L.tail
  /\ count' = L.count

Init ==
  \E v \in {"singly", "doubly"}, items \in InitSeqs :
    LET L == LinkedList_constructor(v, items)
    IN /\ variant = v
       /\ nodes = L.nodes
       /\ head  = L.head
       /\ tail  = L.tail
       /\ count = L.count
       /\ op    = "new"
       /\ args  = items
       /\ ret   = Undef
       /\ NoCursors /\ NoScenario /\ NoSets

Push ==
  \E items \in ArgSeqs :
    /\ Len(nodes) + Len(items) <= MaxNodes
    /\ Install(LinkedList_push(variant, Self, items[1], Tail(items)))
    /\ op' = "push"
    /\ args' = items
    /\ ret' = This
    /\ UNCHANGED <<variant, cursors, scenario, recv, colls, result>>

Unshift ==
  \E items \in ArgSeqs :
    /\ Len(nodes) + Len(items) <= MaxNodes
    /\ Install(LinkedList_unshift(variant, Self, items[1], Tail(items)))
    /\ op' = "unshift"
    /\ args' = items
    /\ ret' = This
    /\ UNCHANGED <<variant, cursors, scenario, recv, colls, result>>

Shift ==
  LET r == shift(variant, Self)
  IN /\ Install(r.list)
     /\ op' = "shift"
     /\ args' = <<>>
     /\ ret' = r.ret
     /\ UNCHANGED <<variant, cursors, scenario, recv, colls, result>>

\* pop exists on DoublyLinkedList only
Pop ==
  /\ variant = "doubly"
  /\ LET r == DoublyLinkedList_pop(Self)
     IN /\ Install(r.list)
        /\ ret' = r.ret
  /\ op' = "pop"
  /\ args' = <<>>
  /\ UNCHANGED <<variant, cursors, scenario, recv, colls, result>>

Next == Push \/ Unshift \/ Shift \/ Pop

Spec == Init /\ [][Next]_vars

\* ------------------------------------------------------------ iterators
\* An iterator object is a record: `dir` is the link it follows, `ptr` its
\* private field.  The model adds what it has yielded so far (`out`) and
\* whether it has signalled exhaustion (`done`).  Iterator objects have no
\* names: two of them in the same state are two copies of one record in the
\* bag.  This specification is about traversals of a list that is not
\* changed while an iterator exists: the list is changed between traversals.

\* mutant: the forward iterator is started on the tail
LinkedList_iterator_fromTail(L) ==
  [dir |-> "next", ptr |-> L.tail, out |-> <<>>, done |-> FALSE]

\* [Symbol.iterator](): new LinkedListForwardIterator(this.head)
LinkedList_iterator(L) ==
  [dir |-> "next", ptr |-> L.head, out |-> <<>>, done |-> FALSE]

\* mutant: the reverse iterator is started on the head
DoublyLinkedList_riterator_fromHead(L) ==
  [dir |-> "prev", ptr |-> L.head, out |-> <<>>, done |-> FALSE]

\* riterator(): new LinkedListReverseIterator(this.tail)
DoublyLinkedList_riterator(L) ==
  [dir |-> "prev", ptr |-> L.tail, out |-> <<>>, done |-> FALSE]

\* mutant: the iterator unlinks the node it leaves
LinkedListForwardIterator_next_unlink(ns, c) ==
  IF c.ptr = Nil
  THEN [nodes |-> ns, cursor |-> [c EXCEPT !.done = TRUE]]
  ELSE [nodes  |-> [ns EXCEPT ![c.ptr].next = Nil],
        cursor |-> [c EXCEPT !.ptr = ns[c.ptr].next,
                             !.out = Append(c.out, ns[c.ptr].item)]]

\* mutant: the pointer is moved before the item is read
LinkedListForwardIterator_next_moveFirst(ns, c) ==
  IF c.ptr = Nil \/ ns[c.ptr].next = Nil
  THEN [nodes |-> ns, cursor |-> [c EXCEPT !.ptr = Nil, !.done = TRUE]]
  ELSE [nodes  |-> ns,
        cursor |-> [c EXCEPT !.ptr = ns[c.ptr].next,
                             !.out = Append(c.out, ns[ns[c.ptr].next].item)]]

\* mutant: the pointer rests on the node whose item was given last and
\* exhaustion is signalled when that node has no next
LinkedListForwardIterator_next_restOnLast(ns, c) ==
  IF c.ptr = Nil
  THEN [nodes |-> ns, cursor |-> [c EXCEPT !.done = TRUE]]
  ELSE IF c.out = <<>>
  THEN [nodes |-> ns, cursor |-> [c EXCEPT !.out = <<ns[c.ptr].item>>]]
  ELSE IF ns[c.ptr].next = Nil
  THEN [nodes |-> ns, cursor |-> [c EXCEPT !.done = TRUE]]
  ELSE [nodes  |-> ns,
        cursor |-> [c EXCEPT !.ptr = ns[c.ptr].next,
                             !.out = Append(c.out, ns[ns[c.ptr].next].item)]]

\* next(): the heap after the call (the iterator only reads it) and the
\* iterator after the call; { done: true } sets `done`, { done: false,
\* value: item } appends the item to `out`
LinkedListForwardIterator_next(ns, c) ==
  IF c.ptr = Nil
  THEN [nodes |-> ns, cursor |-> [c EXCEPT !.done = TRUE]]
  ELSE [nodes  |-> ns,
        cursor |-> [c EXCEPT !.ptr = ns[c.ptr].next,
                             !.out = Append(c.out, ns[c.ptr].item)]]

LinkedListReverseIterator_next(ns, c) ==
  IF c.ptr = Nil
  THEN [nodes |-> ns, cursor |-> [c EXCEPT !.done = TRUE]]
  ELSE [nodes  |-> ns,
        cursor |-> [c EXCEPT !.ptr = ns[c.ptr].prev,
                             !.out = Append(c.out, ns[c.ptr].item)]]

\* the items given to the nodes of this specification: the k-th node ever
\* created holds item k (modulo the number of items), so that an item
\* yielded tells which node it came from
IterItem(n) == ((n - 1) % NumItems) + 1

FreshItems(k) == [i \in 1..k |-> IterItem(Len(nodes) + i)]

IterInit ==
  \E v \in {"singly", "doubly"}, k \in 0..MaxInit :
    LET items == [i \in 1..k |-> IterItem(i)]
        L     == LinkedList_constructor(v, items)
    IN /\ variant = v
       /\ nodes = L.nodes
       /\ head  = L.head
       /\ tail  = L.tail
       /\ count = L.count
       /\ op    = "new"
       /\ args  = items
       /\ ret   = Undef
       /\ NoCursors /\ NoScenario /\ NoSets

\* for (const item of items): a new forward iterator
IterBegin ==
  /\ BagCardinality(cursors) < MaxCursors
  /\ cursors' = cursors (+) SetToBag({LinkedList_iterator(Self)})
  /\ UNCHANGED <<listVars, op, args, ret, scenario, recv, colls, result>>

\* for (const item of items.riterator()): a new reverse iterator
IterBeginReverse ==
  /\ variant = "doubly"
  /\ BagCardinality(cursors) < MaxCursors
  /\ cursors' = cursors (+) SetToBag({DoublyLinkedList_riterator(Self)})
  /\ UNCHANGED <<listVars, op, args, ret, scenario, recv, colls, result>>

\* one call of next() on one of the iterators
IterStep ==
  \E c \in BagToSet(cursors) :
    LET r == IF c.dir = "next"
             THEN LinkedListForwardIterator_next(nodes, c)
             ELSE LinkedListReverseIterator_next(nodes, c)
    IN /\ nodes' = r.nodes
       /\ cursors' = (cursors (-) SetToBag({c})) (+) SetToBag({r.cursor})
       /\ UNCHANGED <<variant, head, tail, count, op, args, ret,
                      scenario, recv, colls, result>>

\* the observers, all called one after the other on the list as it is
IterObserve ==
  /\ op' = "observe"
  /\ args' = <<>>
  /\ ret' = [length  |-> length(Self),  empty |-> empty(Self),
             first   |-> first(Self),   last  |-> last(Self),
             toArray |-> toArray(Self), toJSON |-> toJSON(Self)]
  /\ UNCHANGED <<listVars, cursors, scenario, recv, colls, result>>

\* the for...of loop has seen { done: true } and drops its iterator
IterEnd ==
  \E c \in BagToSet(cursors) :
    /\ c.done
    /\ cursors' = cursors (-) SetToBag({c})
    /\ UNCHANGED <<listVars, op, args, ret, scenario, recv, colls, result>>

\* the list is only changed between traversals: no iterator exists
Quiescent == cursors = EmptyBag

IterPush ==
  \E k \in 1..MaxArgs :
    /\ Quiescent
    /\ Len(nodes) + k <= MaxNodes
    /\ Install(LinkedList_push(variant, Self, FreshItems(k)[1],
                               Tail(FreshItems(k))))
    /\ op' = "push" /\ args' = FreshItems(k) /\ ret' = This
    /\ UNCHANGED <<variant, cursors, scenario, recv, colls, result>>

IterUnshift ==
  \E k \in 1..MaxArgs :
    /\ Quiescent
    /\ Len(nodes) + k <= MaxNodes
    /\ Install(LinkedList_unshift(variant, Self, FreshItems(k)[1],
                                  Tail(FreshItems(k))))
    /\ op' = "unshift" /\ args' = FreshItems(k) /\ ret' = This
    /\ UNCHANGED <<variant, cursors, scenario, recv, colls, result>>

IterShift ==
  /\ Quiescent
  /\ LET r == shift(variant, Self)
     IN Install(r.list) /\ ret' = r.ret
  /\ op' = "shift" /\ args' = <<>>
  /\ UNCHANGED <<variant, cursors, scenario, recv, colls, result>>

IterPop ==
  /\ variant = "doubly"
  /\ Quiescent
  /\ LET r == DoublyLinkedList_pop(Self)
     IN Install(r.list) /\ ret' = r.ret
  /\ op' = "pop" /\ args' = <<>>
  /\ UNCHANGED <<variant, cursors, scenario, recv, colls, result>>

IterNext ==
  \/ IterBegin \/ IterBeginReverse \/ IterStep \/ IterEnd \/ IterObserve
  \/ IterPush \/ IterUnshift \/ IterShift \/ IterPop

SpecIter == IterInit /\ [][IterNext]_vars

\* ------------------------------------- a reverse iterator used twice
\* LinkedListReverseIterator[Symbol.iterator](): return this.  A for...of
\* loop over a reverse iterator object calls it and then calls next() on
\* what it gets, which is the object itself with the ptr it already has.
LinkedListReverseIterator_iterator(c) == c

\* In this specification an iterator record also counts the for...of loops
\* that were run over the object (`loops`); `out` and `done` are what the
\* loop running now has been given.
AgainInit ==
  \E k \in 0..MaxInit :
    LET items == [i \in 1..k |-> IterItem(i)]
        L     == LinkedList_constructor("doubly", items)
    IN /\ variant = "doubly"
       /\ nodes = L.nodes /\ head = L.head /\ tail = L.tail
       /\ count = L.count
       /\ op = "new" /\ args = items /\ ret = Undef
       /\ NoCursors /\ NoScenario /\ NoSets

\* for (const item of items.riterator()): a new object and its first loop
AgainRiterator ==
  /\ BagCardinality(cursors) < MaxCursors
  /\ cursors' = cursors (+)
                   SetToBag({DoublyLinkedList_riterator(Self) @@ [loops |-> 1]})
  /\ UNCHANGED <<listVars, op, args, ret, scenario, recv, colls, result>>

\* one call of next() by the loop running over one of the objects
AgainStep ==
  \E c \in BagToSet(cursors) :
    /\ ~c.done
    /\ LET r == LinkedListReverseIterator_next(nodes, c)
       IN /\ nodes' = r.nodes
          /\ cursors' = (cursors (-) SetToBag({c})) (+) SetToBag({r.cursor})
    /\ UNCHANGED <<variant, head, tail, count, op, args, ret,
                   scenario, recv, colls, result>>

\* for (const item of it) once more over an object whose loop has ended
AgainLoop ==
  \E c \in BagToSet(cursors) :
    /\ c.done /\ c.loops = 1
    /\ cursors' = (cursors (-) SetToBag({c})) (+)
                     SetToBag({[LinkedListReverseIterator_iterator(c)
                                  EXCEPT !.out = <<>>, !.done = FALSE,
                                         !.loops = 2]})
    /\ UNCHANGED <<listVars, op, args, ret, scenario, recv, colls, result>>

\* an object whose loop has ended is dropped
AgainEnd ==
  \E c \in BagToSet(cursors) :
    /\ c.done
    /\ cursors' = cursors (-) SetToBag({c})
    /\ UNCHANGED <<listVars, op, args, ret, scenario, recv, colls, result>>

\* the list is changed while no iterator object exists
AgainNext ==
  \/ AgainRiterator \/ AgainStep \/ AgainLoop \/ AgainEnd
  \/ IterPush \/ IterUnshift \/ IterShift \/ IterPop

SpecAgain == AgainInit /\ [][AgainNext]_vars

\* ------------------------------ an iterator while the list is changed
\* One iterator object exists at a time and the list is changed by any call
\* between its steps.  `scenario.it` holds the object (no element: there is
\* none), `S` the forward sequence of the list when it was made, `calls`
\* the kinds of call made on the list since, and `late` whether one of them
\* came after the object had signalled exhaustion.  `yields` lists the
\* nodes whose items it has given, each with whether it was the tail of
\* the list at that time; `pushed` lists the push calls made since, each
\* with its items, the tail it found and how many items the iterator had
\* given by then.
NoIterator == [it |-> <<>>, S |-> <<>>, calls |-> {}, late |-> FALSE,
               yields |-> <<>>, pushed |-> <<>>]

LiveInit ==
  \E v \in {"singly", "doubly"}, k \in 0..MaxInit :
    LET items == [i \in 1..k |-> IterItem(i)]
        L     == LinkedList_constructor(v, items)
    IN /\ variant = v
       /\ nodes = L.nodes /\ head = L.head /\ tail = L.tail
       /\ count = L.count
       /\ op = "new" /\ args = items /\ ret = Undef
       /\ scenario = NoIterator
       /\ NoCursors /\ NoSets

\* items[Symbol.iterator]()
LiveBegin ==
  /\ scenario.it = <<>>
  /\ scenario' = [NoIterator EXCEPT !.it = <<LinkedList_iterator(Self)>>,
                                    !.S = toArray(Self)]
  /\ op' = "iterator" /\ args' = <<>> /\ ret' = Undef
  /\ UNCHANGED <<listVars, cursors, recv, colls, result>>

\* items.riterator()
LiveBeginReverse ==
  /\ variant = "doubly"
  /\ scenario.it = <<>>
  /\ scenario' = [NoIterator EXCEPT !.it = <<DoublyLinkedList_riterator(Self)>>,
                                    !.S = toArray(Self)]
  /\ op' = "riterator" /\ args' = <<>> /\ ret' = Undef
  /\ UNCHANGED <<listVars, cursors, recv, colls, result>>

\* the IteratorResult of the call that took the iterator from c to d
IteratorResult(c, d) ==
  IF Len(d.out) > Len(c.out)
  THEN [done |-> FALSE, value |-> d.out[Len(d.out)]]
  ELSE [done |-> TRUE, value |-> Undef]

\* one call of next() on the iterator
LiveStep ==
  /\ scenario.it # <<>>
  /\ LET c == scenario.it[1]
         r == IF c.dir = "next"
              THEN LinkedListForwardIterator_next(nodes, c)
              ELSE LinkedListReverseIterator_next(nodes, c)
     IN /\ nodes' = r.nodes
        /\ scenario' = [scenario EXCEPT
                          !.it = <<r.cursor>>,
                          !.yields = IF IteratorResult(c, r.cursor).done THEN @
                                     ELSE Append(@, [node |-> c.ptr,
                                                     wasTail |-> c.ptr = tail])]
        /\ ret' = IteratorResult(c, r.cursor)
  /\ op' = "next" /\ args' = <<>>
  /\ UNCHANGED <<variant, head, tail, count, cursors, recv, colls, result>>

\* the iterator has signalled exhaustion and is dropped
LiveEnd ==
  /\ scenario.it # <<>> /\ scenario.it[1].done
  /\ scenario' = NoIterator
  /\ op' = "end" /\ args' = <<>> /\ ret' = Undef
  /\ UNCHANGED <<listVars, cursors, recv, colls, result>>

\* what a call on the list adds to the record kept for the iterator
Called_on_list(kind) ==
  IF scenario.it = <<>> THEN scenario
  ELSE [scenario EXCEPT !.calls = @ \cup {kind},
                        !.late  = @ \/ scenario.it[1].done]

LivePush ==
  \E k \in 1..MaxArgs :
    /\ Len(nodes) + k <= MaxNodes
    /\ Install(LinkedList_push(variant, Self, FreshItems(k)[1],
                               Tail(FreshItems(k))))
    /\ scenario' = IF scenario.it = <<>> THEN scenario
                   ELSE [Called_on_list("push") EXCEPT
                           !.pushed = Append(@, [items |-> FreshItems(k),
                                                 tail |-> tail,
                                                 yields |-> Len(scenario.yields)])]
    /\ op' = "push" /\ args' = FreshItems(k) /\ ret' = This
    /\ UNCHANGED <<variant, cursors, recv, colls, result>>

LiveUnshift ==
  \E k \in 1..MaxArgs :
    /\ Len(nodes) + k <= MaxNodes
    /\ Install(LinkedList_unshift(variant, Self, FreshItems(k)[1],
                                  Tail(FreshItems(k))))
    /\ scenario' = Called_on_list("unshift")
    /\ op' = "unshift" /\ args' = FreshItems(k) /\ ret' = This
    /\ UNCHANGED <<variant, cursors, recv, colls, result>>

LiveShift ==
  /\ LET r == shift(variant, Self)
     IN Install(r.list) /\ ret' = r.ret
  /\ scenario' = Called_on_list("shift")
  /\ op' = "shift" /\ args' = <<>>
  /\ UNCHANGED <<variant, cursors, recv, colls, result>>

LivePop ==
  /\ variant = "doubly"
  /\ LET r == DoublyLinkedList_pop(Self)
     IN Install(r.list) /\ ret' = r.ret
  /\ scenario' = Called_on_list("pop")
  /\ op' = "pop" /\ args' = <<>>
  /\ UNCHANGED <<variant, cursors, recv, colls, result>>

LiveNext ==
  \/ LiveBegin \/ LiveBeginReverse \/ LiveStep \/ LiveEnd
  \/ LivePush \/ LiveUnshift \/ LiveShift \/ LivePop

SpecLive == LiveInit /\ [][LiveNext]_vars

\* ------------------------------------------------------------- SetPlus
\* A SetPlus is modelled by the set of its elements.  A collection passed to
\* a method is an Iterable: a Set, an array, or a one-shot iterator such as
\* the result of Map.keys().  `elems` are its elements in iteration order and
\* `pos` is how many of them an iterator has already handed out; a Set and an
\* array start again from the first element each time they are iterated.
Elems == 1..NumElems

Range(f) == {f[i] : i \in DOMAIN f}

\* the elements a for...of loop over the collection gets
Remaining(coll) ==
  IF coll.kind = "iterator"
  THEN SubSeq(coll.elems, coll.pos + 1, Len(coll.elems))
  ELSE coll.elems

\* the collection after a for...of loop that took n elements
Consumed(coll, n) ==
  IF coll.kind = "iterator" THEN [coll EXCEPT !.pos = coll.pos + n] ELSE coll

\* a Set as a collection, its elements in some order
RECURSIVE SetAsColl(_)
SetAsColl(S) ==
  IF S = {} THEN [kind |-> "set", elems |-> <<>>, pos |-> 0]
  ELSE LET x == CHOOSE y \in S : \A z \in S : y <= z
           rest == SetAsColl(S \ {x})
       IN [rest EXCEPT !.elems = <<x>> \o rest.elems]

\* this.size < 1
SetPlus_empty(this) == Cardinality(this) < 1

\* new SetPlus<T>(this)
SetPlus_clone(this) == this

\* for each collection, for each element: this.add(element)
RECURSIVE SetPlus_unionInPlace(_, _)
SetPlus_unionInPlace(this, cs) ==
  IF cs = <<>> THEN [set |-> this, colls |-> <<>>]
  ELSE LET got  == Remaining(cs[1])
           rest == SetPlus_unionInPlace(this \cup Range(got), Tail(cs))
       IN [set   |-> rest.set,
           colls |-> <<Consumed(cs[1], Len(got))>> \o rest.colls]

SetPlus_union(this, cs) == SetPlus_unionInPlace(SetPlus_clone(this), cs)

\* collection instanceof Set ? collection : new Set<T>(collection)
SetPlus_asSet(coll) ==
  IF coll.kind = "set"
  THEN [set |-> Range(coll.elems), coll |-> coll]
  ELSE [set  |-> Range(Remaining(coll)),
        coll |-> Consumed(coll, Len(Remaining(coll)))]

\* the loop of intersection over the collections from the i-th on; it is
\* left as soon as a delete has emptied the result
\* the loop leaving, when the result is emptied, with the result as it was
\* before the delete
RECURSIVE SetPlus_intersectionLoop_keepOnExit(_, _, _)
SetPlus_intersectionLoop_keepOnExit(res, cs, i) ==
  IF i > Len(cs) THEN [set |-> res, colls |-> cs]
  ELSE LET other == SetPlus_asSet(cs[i])
           cs1   == [cs EXCEPT ![i] = other.coll]
           res1  == res \cap other.set
       IN IF res # {} /\ res1 = {}
          THEN [set |-> res, colls |-> cs1]
          ELSE SetPlus_intersectionLoop_keepOnExit(res1, cs1, i + 1)

RECURSIVE SetPlus_intersectionLoop(_, _, _)
SetPlus_intersectionLoop(res, cs, i) ==
  IF i > Len(cs) THEN [set |-> res, colls |-> cs]
  ELSE LET other == SetPlus_asSet(cs[i])
           cs1   == [cs EXCEPT ![i] = other.coll]
           res1  == res \cap other.set
       IN IF res # {} /\ res1 = {}
          THEN [set |-> res1, colls |-> cs1]
          ELSE SetPlus_intersectionLoop(res1, cs1, i + 1)

SetPlus_intersection(this, cs) ==
  SetPlus_intersectionLoop(SetPlus_clone(this), cs, 1)

\* the inner loop of difference over the elements of one collection:
\* result.delete(element); if (result.empty()) return result
\* the inner loop without result.delete(element)
SetPlus_differenceElements_noDelete(res, els, n) ==
  IF SetPlus_empty(res) /\ Len(els) > 0
  THEN [set |-> res, taken |-> 1, left |-> TRUE]
  ELSE [set |-> res, taken |-> Len(els), left |-> FALSE]

RECURSIVE SetPlus_differenceElements(_, _, _)
SetPlus_differenceElements(res, els, n) ==
  IF n >= Len(els) THEN [set |-> res, taken |-> n, left |-> FALSE]
  ELSE LET res1 == res \ {els[n + 1]}
       IN IF SetPlus_empty(res1)
          THEN [set |-> res1, taken |-> n + 1, left |-> TRUE]
          ELSE SetPlus_differenceElements(res1, els, n + 1)

RECURSIVE SetPlus_differenceLoop(_, _, _)
SetPlus_differenceLoop(res, cs, i) ==
  IF i > Len(cs) THEN [set |-> res, colls |-> cs]
  ELSE LET r   == SetPlus_differenceElements(res, Remaining(cs[i]), 0)
           cs1 == [cs EXCEPT ![i] = Consumed(cs[i], r.taken)]
       IN IF r.left THEN [set |-> r.set, colls |-> cs1]
          ELSE SetPlus_differenceLoop(r.set, cs1, i + 1)

SetPlus_difference(this, cs) ==
  SetPlus_differenceLoop(SetPlus_clone(this), cs, 1)

\* this.union(...collections).difference(this.intersection(...collections)):
\* the union is computed first, the intersection next, on the collections as
\* the union left them
SetPlus_xor(this, cs) ==
  LET u == SetPlus_union(this, cs)
      n == SetPlus_intersection(this, u.colls)
      x == SetPlus_difference(u.set, <<SetAsColl(n.set)>>)
  IN [set |-> x.set, colls |-> n.colls]

\* this.xor(collection).empty()
SetPlus_equals(this, coll) ==
  LET x == SetPlus_xor(this, <<coll>>)
  IN [value |-> SetPlus_empty(x.set), colls |-> x.colls]

\* The methods again, on objects.  A heap maps each Set object to its
\* elements; the receiver is the object This and every `new SetPlus` adds an
\* object.  Each method returns the heap it leaves, the object it returns
\* and the collections as its loops left them.
NewObject(h) == Cardinality(DOMAIN h)

\* new SetPlus<T>(this): a new object with the elements of o
SetPlus_clone_at_alias(h, o) == [heap |-> h, ret |-> o]

SetPlus_clone_at(h, o) ==
  [heap |-> h @@ (NewObject(h) :> SetPlus_clone(h[o])), ret |-> NewObject(h)]

\* this.add(element) for every element of every collection; return this
SetPlus_unionInPlace_at(h, o, cs) ==
  LET r == SetPlus_unionInPlace(h[o], cs)
  IN [heap |-> [h EXCEPT ![o] = r.set], ret |-> o, colls |-> r.colls]

\* this.clone().unionInPlace(...collections)
SetPlus_union_at(h, o, cs) ==
  LET c == SetPlus_clone_at(h, o)
  IN SetPlus_unionInPlace_at(c.heap, c.ret, cs)

\* const result = this.clone(); ... result.delete(element) ...; return result
SetPlus_intersection_at(h, o, cs) ==
  LET c == SetPlus_clone_at(h, o)
      r == SetPlus_intersectionLoop(c.heap[c.ret], cs, 1)
  IN [heap |-> [c.heap EXCEPT ![c.ret] = r.set], ret |-> c.ret,
      colls |-> r.colls]

SetPlus_difference_at(h, o, cs) ==
  LET c == SetPlus_clone_at(h, o)
      r == SetPlus_differenceLoop(c.heap[c.ret], cs, 1)
  IN [heap |-> [c.heap EXCEPT ![c.ret] = r.set], ret |-> c.ret,
      colls |-> r.colls]

\* this.difference(this.intersection(...collections)), the union left out
SetPlus_xor_at_fromThis(h, o, cs) ==
  LET n == SetPlus_intersection_at(h, o, cs)
      x == SetPlus_difference_at(n.heap, o, <<SetAsColl(n.heap[n.ret])>>)
  IN [heap |-> x.heap, ret |-> x.ret, colls |-> n.colls]

\* this.union(...collections).difference(this.intersection(...collections))
SetPlus_xor_at(h, o, cs) ==
  LET u == SetPlus_union_at(h, o, cs)
      n == SetPlus_intersection_at(u.heap, o, u.colls)
      x == SetPlus_difference_at(n.heap, u.ret, <<SetAsColl(n.heap[n.ret])>>)
  IN [heap |-> x.heap, ret |-> x.ret, colls |-> n.colls]

\* the collections a caller can pass: arrays (any elements, repeated or
\* not), Sets (no element twice) and fresh one-shot iterators over a Set or
\* the keys of a Map (no element twice)
RECURSIVE ElemSeqs(_)
ElemSeqs(n) ==
  IF n = 0 THEN {<<>>}
  ELSE LET S == ElemSeqs(n - 1)
       IN S \cup {Append(q, e) : q \in {t \in S : Len(t) = n - 1}, e \in Elems}

NoRepeat(q) == \A i, j \in 1..Len(q) : q[i] = q[j] => i = j

Collections ==
  {[kind |-> "array", elems |-> q, pos |-> 0] : q \in ElemSeqs(MaxCollLen)}
  \cup {[kind |-> k, elems |-> q, pos |-> 0] :
          k \in {"set", "iterator"},
          q \in {t \in ElemSeqs(MaxCollLen) : NoRepeat(t)}}

\* no list is in use
NoList ==
  /\ variant = "none"
  /\ nodes = <<>> /\ head = Nil /\ tail = Nil /\ count = 0
  /\ op = "none" /\ args = <<>> /\ ret = Undef

\* the argument lists of a variadic method
RECURSIVE CollSeqs(_)
CollSeqs(n) ==
  IF n = 0 THEN {<<>>}
  ELSE LET S == CollSeqs(n - 1)
       IN S \cup {Append(q, c) : q \in {t \in S : Len(t) = n - 1},
                                c \in Collections}

SetInit ==
  /\ recv \in SUBSET Elems
  /\ colls \in CollSeqs(MaxColls)
  /\ result = <<>>
  /\ NoList /\ NoCursors /\ NoScenario

\* the receiver, the collections and the result after a call that left r
Returned(method, r) ==
  /\ recv' = r.heap[This]
  /\ colls' = r.colls
  /\ result' = [method |-> method, value |-> r.heap[r.ret],
                isThis |-> r.ret = This]
  /\ UNCHANGED <<listVars, op, args, ret, cursors, scenario>>

\* recv.union(...colls)
SetUnion ==
  /\ result = <<>>
  /\ Returned("union", SetPlus_union_at(This :> recv, This, colls))

\* recv.unionInPlace(...colls)
SetUnionInPlace ==
  /\ result = <<>>
  /\ Returned("unionInPlace", SetPlus_unionInPlace_at(This :> recv, This, colls))

\* recv.intersection(...colls)
SetIntersection ==
  /\ result = <<>>
  /\ Returned("intersection", SetPlus_intersection_at(This :> recv, This, colls))

\* recv.difference(...colls)
SetDifference ==
  /\ result = <<>>
  /\ Returned("difference", SetPlus_difference_at(This :> recv, This, colls))

\* recv.xor(...colls)
SetXor ==
  /\ result = <<>>
  /\ Returned("xor", SetPlus_xor_at(This :> recv, This, colls))

\* recv.equals(colls[1])
SetEquals ==
  /\ result = <<>>
  /\ Len(colls) = 1
  /\ LET r == SetPlus_equals(recv, colls[1])
     IN /\ result' = [method |-> "equals", value |-> r.value]
        /\ colls' = r.colls
  /\ UNCHANGED <<listVars, op, args, ret, cursors, scenario, recv>>

SetNext ==
  \/ SetUnion \/ SetUnionInPlace \/ SetIntersection \/ SetDifference
  \/ SetXor \/ SetEquals

SpecSet == SetInit /\ [][SetNext]_vars

\* ------------------------------------------------------------- MapPlus
\* A Map is modelled by the sequence of its entries in insertion order, no
\* key twice.
\* A value is a number, undefined, null, or an object with some of the
\* properties p and q set to numbers.
Keys == 1..NumKeys

Undefined == [type |-> "undefined"]
Null == [type |-> "null"]
Number(n) == [type |-> "number", n |-> n]
Numbers == {Number(n) : n \in 1..NumValues}
PropNames == {"p", "q"}
Objects ==
  {[type |-> "object", props |-> f] :
     f \in UNION {[D -> Numbers] : D \in SUBSET PropNames}}
Array(items) == [type |-> "array", items |-> items]

\* the values of the maps that are compared and merged, and all values
Values == Numbers \cup {Undefined}
AllValues == Values \cup {Null} \cup Objects

\* typeof value: 'object' for objects, arrays and null
typeof(v) == IF v.type \in {"null", "array"} THEN "object" ELSE v.type

\* Map.keys(): a fresh one-shot iterator over the keys in insertion order
Map_keys(m) ==
  [kind |-> "iterator", elems |-> [i \in 1..Len(m) |-> m[i].key], pos |-> 0]

\* Map.get(key): the value, or undefined when the key is absent
Map_get(m, k) ==
  IF \E i \in 1..Len(m) : m[i].key = k
  THEN m[CHOOSE i \in 1..Len(m) : m[i].key = k].value
  ELSE Undefined

Map_has(m, k) == \E i \in 1..Len(m) : m[i].key = k

\* Map.set(key, value): a present key keeps its place and takes the value,
\* an absent key is added at the end
Map_set(m, k, v) ==
  IF Map_has(m, k)
  THEN [i \in 1..Len(m) |-> IF m[i].key = k THEN [m[i] EXCEPT !.value = v]
                                            ELSE m[i]]
  ELSE Append(m, [key |-> k, value |-> v])

\* lodash isEqual: deep equality
isEqual(a, b) == a = b

\* new SetPlus(this.keys())
MapPlus_keySet(this) == Range(Remaining(Map_keys(this)))

MapPlus_equals(this, other) ==
  IF ~SetPlus_equals(MapPlus_keySet(this), Map_keys(other)).value
  THEN FALSE
  ELSE \A i \in 1..Len(this) :
         isEqual(this[i].value, Map_get(other, this[i].key))

\* for (const [key, value] of other)
\*   (overwrite || !this.has(key)) && this.set(key, value)
RECURSIVE MapPlus_merge_ignoreFlag(_, _, _)
MapPlus_merge_ignoreFlag(this, other, overwrite) ==
  IF other = <<>> THEN this
  ELSE MapPlus_merge_ignoreFlag(
         Map_set(this, other[1].key, other[1].value), Tail(other), overwrite)

RECURSIVE MapPlus_merge(_, _, _)
MapPlus_merge(this, other, overwrite) ==
  IF other = <<>> THEN this
  ELSE LET e == other[1]
           this1 == IF overwrite \/ ~Map_has(this, e.key)
                    THEN Map_set(this, e.key, e.value)
                    ELSE this
       IN MapPlus_merge(this1, Tail(other), overwrite)

\* the maps of up to NumKeys entries with values in V
RECURSIVE EntrySeqs(_, _)
EntrySeqs(n, V) ==
  IF n = 0 THEN {<<>>}
  ELSE LET S == EntrySeqs(n - 1, V)
       IN S \cup {Append(q, [key |-> k, value |-> v]) :
                    q \in {t \in S : Len(t) = n - 1}, k \in Keys, v \in V}

MapsOver(V) ==
  {m \in EntrySeqs(NumKeys, V) :
     \A i, j \in 1..Len(m) : m[i].key = m[j].key => i = j}

Maps == MapsOver(Values)

MapInit ==
  /\ recv \in Maps
  /\ \E other \in Maps : colls = <<other>>
  /\ result = <<>>
  /\ NoList /\ NoCursors /\ NoScenario

\* recv.equals(colls[1])
MapEquals ==
  /\ result = <<>>
  /\ result' = [method |-> "equals", value |-> MapPlus_equals(recv, colls[1])]
  /\ UNCHANGED <<listVars, op, args, ret, cursors, scenario, recv, colls>>

\* recv.merge(colls[1], overwrite)
MapMerge ==
  /\ result = <<>>
  /\ \E overwrite \in BOOLEAN :
       /\ recv' = MapPlus_merge(recv, colls[1], overwrite)
       /\ result' = [method |-> "merge", overwrite |-> overwrite,
                     value |-> This]
  /\ UNCHANGED <<listVars, op, args, ret, cursors, scenario, colls>>

MapNext == MapEquals \/ MapMerge

SpecMap == MapInit /\ [][MapNext]_vars

\* const existing = this.get(key); if (existing !== undefined) return existing;
\* this.set(key, value); return value
MapPlus_addIfAbsent(this, key, value) ==
  LET existing == Map_get(this, key)
  IN IF existing # Undefined
     THEN [map |-> this, ret |-> existing]
     ELSE [map |-> Map_set(this, key, value), ret |-> value]

\* element[property]: the property, undefined when the object has none of
\* that name
GetProp(element, property) ==
  IF property \in DOMAIN element.props THEN element.props[property]
  ELSE Undefined

\* the forEach of groupBy from the i-th entry on.  An element of type
\* 'object' has its property read, which throws a TypeError on null; the
\* element is pushed on the array that addIfAbsent returns, the one held by
\* the result under the property's value.
RECURSIVE MapPlus_groupByLoop(_, _, _, _)
MapPlus_groupByLoop(this, property, i, res) ==
  IF i > Len(this) THEN [map |-> res, threw |-> FALSE]
  ELSE LET element == this[i].value
       IN IF typeof(element) = "object"
          THEN IF element = Null
               THEN [map |-> res, threw |-> TRUE]
               ELSE LET propertyValue == GetProp(element, property)
                        a == MapPlus_addIfAbsent(res, propertyValue, Array(<<>>))
                        pushed == Array(Append(a.ret.items, element))
                    IN MapPlus_groupByLoop(this, property, i + 1,
                                           Map_set(a.map, propertyValue, pushed))
          ELSE MapPlus_groupByLoop(this, property, i + 1, res)

\* const result = new MapPlus(); this.forEach(...); return result
MapPlus_groupBy(this, property) == MapPlus_groupByLoop(this, property, 1, <<>>)

MapValuesInit ==
  /\ recv \in MapsOver(AllValues)
  /\ colls = <<>>
  /\ result = <<>>
  /\ NoList /\ NoCursors /\ NoScenario

\* recv.addIfAbsent(key, value)
MapAddIfAbsent ==
  /\ result = <<>>
  /\ \E key \in Keys, value \in AllValues :
       LET r == MapPlus_addIfAbsent(recv, key, value)
       IN /\ recv' = r.map
          /\ result' = [method |-> "addIfAbsent", key |-> key,
                        arg |-> value, value |-> r.ret]
  /\ UNCHANGED <<listVars, op, args, ret, cursors, scenario, colls>>

\* recv.groupBy(property): the new map, or the exception that leaves it
MapGroupBy ==
  /\ result = <<>>
  /\ \E property \in PropNames :
       LET r == MapPlus_groupBy(recv, property)
       IN result' = [method |-> "groupBy", property |-> property,
                     threw |-> r.threw,
                     value |-> IF r.threw THEN <<>> ELSE r.map]
  /\ UNCHANGED <<listVars, op, args, ret, cursors, scenario, recv, colls>>

MapValuesNext == MapAddIfAbsent \/ MapGroupBy

SpecMapValues == MapValuesInit /\ [][MapValuesNext]_vars

\* ------------------------------------------- the two variants side by side
\* A DoublyLinkedList (the list variables) and a LinkedList (`scenario.twin`)
\* built from the same items and driven by the same calls; `scenario.ret` is
\* what the LinkedList returned from the last call.
PairInit ==
  \E items \in InitSeqs :
    /\ variant = "doubly"
    /\ LET L == LinkedList_constructor("doubly", items)
       IN nodes = L.nodes /\ head = L.head /\ tail = L.tail /\ count = L.count
    /\ scenario = [twin |-> LinkedList_constructor("singly", items),
                   ret |-> Undef]
    /\ op = "new" /\ args = items /\ ret = Undef
    /\ NoCursors /\ NoSets

PairPush ==
  \E items \in ArgSeqs :
    /\ Len(nodes) + Len(items) <= MaxNodes
    /\ Install(LinkedList_push("doubly", Self, items[1], Tail(items)))
    /\ scenario' = [twin |-> LinkedList_push("singly", scenario.twin,
                                             items[1], Tail(items)),
                    ret |-> This]
    /\ op' = "push" /\ args' = items /\ ret' = This
    /\ UNCHANGED <<variant, cursors, recv, colls, result>>

PairUnshift ==
  \E items \in ArgSeqs :
    /\ Len(nodes) + Len(items) <= MaxNodes
    /\ Install(LinkedList_unshift("doubly", Self, items[1], Tail(items)))
    /\ scenario' = [twin |-> LinkedList_unshift("singly", scenario.twin,
                                                items[1], Tail(items)),
                    ret |-> This]
    /\ op' = "unshift" /\ args' = items /\ ret' = This
    /\ UNCHANGED <<variant, cursors, recv, colls, result>>

PairShift ==
  LET r == shift("doubly", Self)
      t == shift("singly", scenario.twin)
  IN /\ Install(r.list)
     /\ scenario' = [twin |-> t.list, ret |-> t.ret]
     /\ op' = "shift" /\ args' = <<>> /\ ret' = r.ret
     /\ UNCHANGED <<variant, cursors, recv, colls, result>>

PairNext == PairPush \/ PairUnshift \/ PairShift

SpecPair == PairInit /\ [][PairNext]_vars

\* ------------------------------------------------- emptying a list
\* A DoublyLinkedList is built and changed by any calls, then emptied by
\* exactly as many shift and pop calls as it has items.  `scenario` records
\* the forward sequence S when the emptying starts and what the shift and
\* the pop calls returned since, each in call order.
DrainInit ==
  \E items \in InitSeqs :
    /\ variant = "doubly"
    /\ LET L == LinkedList_constructor("doubly", items)
       IN nodes = L.nodes /\ head = L.head /\ tail = L.tail /\ count = L.count
    /\ scenario = [draining |-> FALSE, S |-> <<>>,
                   shifted |-> <<>>, popped |-> <<>>]
    /\ op = "new" /\ args = items /\ ret = Undef
    /\ NoCursors /\ NoSets

\* any call on the list before the emptying starts
DrainBuild ==
  /\ ~scenario.draining
  /\ Push \/ Unshift \/ Shift \/ Pop

DrainStart ==
  /\ ~scenario.draining
  /\ scenario' = [scenario EXCEPT !.draining = TRUE, !.S = toArray(Self)]
  /\ op' = "start" /\ args' = <<>> /\ ret' = Undef
  /\ UNCHANGED <<listVars, cursors, recv, colls, result>>

Removals == Len(scenario.shifted) + Len(scenario.popped)

DrainShift ==
  /\ scenario.draining /\ Removals < Len(scenario.S)
  /\ LET r == DoublyLinkedList_shift(Self)
     IN /\ Install(r.list)
        /\ ret' = r.ret
        /\ scenario' = [scenario EXCEPT !.shifted = Append(@, r.ret)]
  /\ op' = "shift" /\ args' = <<>>
  /\ UNCHANGED <<variant, cursors, recv, colls, result>>

DrainPop ==
  /\ scenario.draining /\ Removals < Len(scenario.S)
  /\ LET r == DoublyLinkedList_pop(Self)
     IN /\ Install(r.list)
        /\ ret' = r.ret
        /\ scenario' = [scenario EXCEPT !.popped = Append(@, r.ret)]
  /\ op' = "pop" /\ args' = <<>>
  /\ UNCHANGED <<variant, cursors, recv, colls, result>>

DrainNext == DrainBuild \/ DrainStart \/ DrainShift \/ DrainPop

SpecDrain == DrainInit /\ [][DrainNext]_vars

\* ------------------------------------- adding and removing at one end
\* A list of either variant is built and changed by any calls; at any time
\* one item is added at one end and the very next call removes at that same
\* end.  `scenario` records which call is pending, the item it added and the
\* forward sequence, reverse walk and length of the list before it.
UndoInit ==
  \E v \in {"singly", "doubly"}, items \in InitSeqs :
    /\ variant = v
    /\ LET L == LinkedList_constructor(v, items)
       IN nodes = L.nodes /\ head = L.head /\ tail = L.tail /\ count = L.count
    /\ scenario = [pending |-> "none", x |-> Undef, S |-> <<>>, R |-> <<>>,
                   n |-> 0]
    /\ op = "new" /\ args = items /\ ret = Undef
    /\ NoCursors /\ NoSets

\* any call on the list while no removal is pending
UndoBuild ==
  /\ scenario.pending = "none"
  /\ Push \/ Unshift \/ Shift \/ Pop

\* unshift(x), to be followed by shift()
UndoUnshift ==
  \E x \in Items :
    /\ scenario.pending = "none"
    /\ Len(nodes) + 1 <= MaxNodes
    /\ Install(LinkedList_unshift(variant, Self, x, <<>>))
    /\ scenario' = [pending |-> "unshift", x |-> x, S |-> toArray(Self),
                    R |-> riterator(Self), n |-> length(Self)]
    /\ op' = "unshift" /\ args' = <<x>> /\ ret' = This
    /\ UNCHANGED <<variant, cursors, recv, colls, result>>

\* push(x) on a DoublyLinkedList, to be followed by pop()
UndoPush ==
  \E x \in Items :
    /\ scenario.pending = "none"
    /\ variant = "doubly"
    /\ Len(nodes) + 1 <= MaxNodes
    /\ Install(LinkedList_push(variant, Self, x, <<>>))
    /\ scenario' = [pending |-> "push", x |-> x, S |-> toArray(Self),
                    R |-> riterator(Self), n |-> length(Self)]
    /\ op' = "push" /\ args' = <<x>> /\ ret' = This
    /\ UNCHANGED <<variant, cursors, recv, colls, result>>

UndoShift ==
  /\ scenario.pending = "unshift"
  /\ LET r == shift(variant, Self)
     IN Install(r.list) /\ ret' = r.ret
  /\ scenario' = [scenario EXCEPT !.pending = "none"]
  /\ op' = "shift" /\ args' = <<>>
  /\ UNCHANGED <<variant, cursors, recv, colls, result>>

UndoPop ==
  /\ scenario.pending = "push"
  /\ LET r == DoublyLinkedList_pop(Self)
     IN Install(r.list) /\ ret' = r.ret
  /\ scenario' = [scenario EXCEPT !.pending = "none"]
  /\ op' = "pop" /\ args' = <<>>
  /\ UNCHANGED <<variant, cursors, recv, colls, result>>

UndoNext ==
  UndoBuild \/ UndoUnshift \/ UndoPush \/ UndoShift \/ UndoPop

SpecUndo == UndoInit /\ [][UndoNext]_vars

\* ------------------------------------------- a chain before it is added
\* push, unshift and the constructor each call createChain and hand the
\* chain it returns to addChainToEnd or addChainToStart.  Here the two
\* calls are two steps: `scenario` holds the chain between them, with the
\* number of nodes the heap had before createChain (`base`) and the call
\* that asked for it (`by`).
NoChain == [pending |-> FALSE, first |-> Nil, last |-> Nil, count |-> 0,
            base |-> 0, by |-> "none"]

\* new LinkedList() / new DoublyLinkedList(): no items, createChain not called
ChainInit ==
  \E v \in {"singly", "doubly"} :
    /\ variant = v
    /\ nodes = <<>> /\ head = Nil /\ tail = Nil /\ count = 0
    /\ scenario = NoChain
    /\ op = "new" /\ args = <<>> /\ ret = Undef
    /\ NoCursors /\ NoSets

\* this.createChain(item, ...others) in push or unshift
ChainCreate ==
  \E items \in ArgSeqs, by \in {"push", "unshift"} :
    /\ ~scenario.pending
    /\ Len(nodes) + Len(items) <= MaxNodes
    /\ LET ch == createChain(variant, nodes, items[1], Tail(items))
       IN /\ nodes' = ch.nodes
          /\ scenario' = [pending |-> TRUE, first |-> ch.first,
                          last |-> ch.last, count |-> ch.count,
                          base |-> Len(nodes), by |-> by]
    /\ op' = "createChain" /\ args' = items /\ ret' = Undef
    /\ UNCHANGED <<variant, head, tail, count, cursors, recv, colls, result>>

\* the chain held by `scenario`, on the heap as it is
PendingChain ==
  [nodes |-> nodes, first |-> scenario.first, last |-> scenario.last,
   count |-> scenario.count]

\* this.addChainToEnd(chain); return this
ChainAddToEnd ==
  /\ scenario.pending /\ scenario.by = "push"
  /\ Install(addChainToEnd(variant, Self, PendingChain))
  /\ scenario' = NoChain
  /\ op' = "push" /\ ret' = This
  /\ UNCHANGED <<variant, args, cursors, recv, colls, result>>

\* this.addChainToStart(chain); return this
ChainAddToStart ==
  /\ scenario.pending /\ scenario.by = "unshift"
  /\ Install(addChainToStart(variant, Self, PendingChain))
  /\ scenario' = NoChain
  /\ op' = "unshift" /\ ret' = This
  /\ UNCHANGED <<variant, args, cursors, recv, colls, result>>

\* shift() and pop() between two insertions
ChainRemove ==
  /\ ~scenario.pending
  /\ Shift \/ Pop

ChainNext ==
  ChainCreate \/ ChainAddToEnd \/ ChainAddToStart \/ ChainRemove

SpecChain == ChainInit /\ [][ChainNext]_vars

\* ------------------------------------------------- the mixed scenario
\* The test "can mix pushing, popping, shifting and unshifting": a fixed
\* script of calls on an empty DoublyLinkedList.  The script names its items
\* one, two, three, four; `scenario.items` says which value each of them is.
NumScenarioItems == 4

Script ==
  << [op |-> "push",    item |-> 1], [op |-> "unshift", item |-> 2],
     [op |-> "push",    item |-> 3], [op |-> "pop",     item |-> 0],
     [op |-> "unshift", item |-> 4], [op |-> "push",    item |-> 3],
     [op |-> "shift",   item |-> 0], [op |-> "shift",   item |-> 0],
     [op |-> "pop",     item |-> 0], [op |-> "pop",     item |-> 0],
     [op |-> "shift",   item |-> 0], [op |-> "pop",     item |-> 0] >>

ScenarioInit ==
  /\ variant = "doubly"
  /\ nodes = EmptyList.nodes
  /\ head  = EmptyList.head
  /\ tail  = EmptyList.tail
  /\ count = EmptyList.count
  /\ op = "new" /\ args = <<>> /\ ret = Undef
  /\ \E its \in [1..NumScenarioItems -> 1..NumScenarioItems] :
       scenario = [items |-> its, step |-> 0]
  /\ NoCursors /\ NoSets

\* the call the script makes next, if any
ScriptCall(kind) ==
  /\ scenario.step < Len(Script)
  /\ Script[scenario.step + 1].op = kind

ScriptItem == scenario.items[Script[scenario.step + 1].item]

ScriptAdvance ==
  /\ scenario' = [scenario EXCEPT !.step = scenario.step + 1]
  /\ UNCHANGED <<variant, cursors, recv, colls, result>>

ScenarioPush ==
  /\ ScriptCall("push")
  /\ Install(LinkedList_push(variant, Self, ScriptItem, <<>>))
  /\ op' = "push" /\ args' = <<ScriptItem>> /\ ret' = This
  /\ ScriptAdvance

ScenarioUnshift ==
  /\ ScriptCall("unshift")
  /\ Install(LinkedList_unshift(variant, Self, ScriptItem, <<>>))
  /\ op' = "unshift" /\ args' = <<ScriptItem>> /\ ret' = This
  /\ ScriptAdvance

ScenarioShift ==
  /\ ScriptCall("shift")
  /\ LET r == shift(variant, Self)
     IN Install(r.list) /\ ret' = r.ret
  /\ op' = "shift" /\ args' = <<>>
  /\ ScriptAdvance

ScenarioPop ==
  /\ ScriptCall("pop")
  /\ LET r == DoublyLinkedList_pop(Self)
     IN Install(r.list) /\ ret' = r.ret
  /\ op' = "pop" /\ args' = <<>>
  /\ ScriptAdvance

ScenarioNext == ScenarioPush \/ ScenarioUnshift \/ ScenarioShift \/ ScenarioPop

SpecScenario == ScenarioInit /\ [][ScenarioNext]_vars

\* ------------------------------------------------------------ properties
Reverse(s) == [i \in 1..Len(s) |-> s[Len(s) + 1 - i]]

\* the node reached from n by following next k times (Nil once absent)
RECURSIVE NthNext(_, _)
NthNext(n, k) ==
  IF k = 0 \/ n = Nil THEN n ELSE NthNext(nodes[n].next, k - 1)

\* the node the i-th step of a forward traversal from head stands on:
\* step 1 is head, step count is tail, step count + 1 finds nothing
StepNode(i) == NthNext(head, i - 1)

\* the nodes that are in the list: those a forward traversal visits
InList == {n \in 1..Len(nodes) : \E i \in 1..Len(nodes) : StepNode(i) = n}

\* C1: on a DoublyLinkedList, after construction and after every push,
\* unshift, shift and pop, reverse iteration yields exactly the reverse of
\* forward iteration.
C1_ReverseIsReverseOfForward ==
  variant = "doubly" => riterator(Self) = Reverse(toArray(Self))

C1_Witness ==
  /\ variant = "doubly"
  /\ op \in {"shift", "pop"}
  /\ count >= 2
  /\ riterator(Self) = Reverse(toArray(Self))
  /\ \E n \in 1..Len(nodes) : n \notin InList

\* C2: in every reachable state of either variant, head is absent iff tail
\* is absent iff count = 0.
C2_HeadTailCountAgree ==
  /\ (head = Nil) <=> (tail = Nil)
  /\ (tail = Nil) <=> (count = 0)

C2_Witness ==
  /\ op \in {"shift", "pop"}
  /\ ret # Undef
  /\ head = Nil /\ tail = Nil /\ count = 0

\* C3: in every reachable state of either variant, empty(), length() = 0,
\* first() being absent and last() being absent all agree.
C3_EmptyLengthFirstLastAgree ==
  /\ empty(Self) <=> (length(Self) = 0)
  /\ (length(Self) = 0) <=> (first(Self) = Undef)
  /\ (first(Self) = Undef) <=> (last(Self) = Undef)

C3_Witness ==
  /\ op \in {"shift", "pop"}
  /\ ret # Undef
  /\ empty(Self) /\ first(Self) = Undef /\ last(Self) = Undef

\* C4: in every reachable state of either variant the forward chain from
\* head holds exactly count nodes: the count-th step of a traversal stands on
\* tail, every earlier step stands on a node, the count + 1-th step finds
\* nothing (so tail.next is absent and there is no cycle).
C4_ChainHasCountNodes ==
  /\ \A i \in 1..count : StepNode(i) # Nil
  /\ StepNode(count + 1) = Nil
  /\ count > 0 => StepNode(count) = tail /\ nodes[tail].next = Nil
  /\ count = 0 => head = Nil
  /\ Cardinality(InList) = count

C4_Witness ==
  /\ op = "unshift" /\ Len(args) >= 2
  /\ count = 2
  /\ StepNode(2) = tail
  /\ StepNode(3) = Nil
  /\ Len(nodes) > count

\* C5: in every reachable state of a DoublyLinkedList, node.prev.next = node
\* for every node of the list but head, node.next.prev = node for every node
\* but tail, head.prev and tail.next are absent; so no node of the list
\* links to a node that has been removed.
C5_DoublyLinked ==
  variant = "doubly" =>
    /\ \A n \in InList :
         /\ n # head => nodes[n].prev # Nil /\ nodes[nodes[n].prev].next = n
         /\ n # tail => nodes[n].next # Nil /\ nodes[nodes[n].next].prev = n
         /\ nodes[n].prev \in InList \cup {Nil}
         /\ nodes[n].next \in InList \cup {Nil}
    /\ head # Nil => nodes[head].prev = Nil
    /\ tail # Nil => nodes[tail].next = Nil

C5_Witness ==
  /\ variant = "doubly"
  /\ op \in {"shift", "pop"}
  /\ count >= 2
  /\ \E n \in 1..Len(nodes) :
       /\ n \notin InList
       /\ nodes[n].next \in InList \/ nodes[n].prev \in InList

\* C6: push(i1..ik) on a list whose forward sequence is S leaves S followed
\* by i1..ik, adds exactly k to length(), makes last() = ik and leaves
\* first() as it was when S is not empty (first() = i1 when S is empty).
C6_PushAppends ==
  [][op' = "push" =>
       /\ toArray(Self)' = toArray(Self) \o args'
       /\ length(Self)' = length(Self) + Len(args')
       /\ last(Self)' = args'[Len(args')]
       /\ first(Self)' = IF toArray(Self) # <<>> THEN first(Self) ELSE args'[1]
    ]_vars

\* push(a, b, c) on an empty list: length 3, first a, last c, iteration [a, b, c]
C6_Witness ==
  /\ op = "push" /\ args = <<1, 2, 2>>
  /\ length(Self) = 3 /\ first(Self) = 1 /\ last(Self) = 2
  /\ toArray(Self) = <<1, 2, 2>>

\* C7: unshift(i1..ik) on a list whose forward sequence is S leaves i1..ik
\* followed by S, adds exactly k to length(), makes first() = i1 and leaves
\* last() as it was when S is not empty.
C7_UnshiftPrepends ==
  [][op' = "unshift" =>
       /\ toArray(Self)' = args' \o toArray(Self)
       /\ length(Self)' = length(Self) + Len(args')
       /\ first(Self)' = args'[1]
       /\ last(Self)' = IF toArray(Self) # <<>> THEN last(Self)
                        ELSE args'[Len(args')]
    ]_vars

\* unshift(a), unshift(b), unshift(c) from empty: iteration [c, b, a]
C7_Witness ==
  /\ op = "unshift" /\ args = <<2>>
  /\ Len(nodes) = 3
  /\ toArray(Self) = <<2, 2, 1>>
  /\ nodes[1].item = 1 /\ nodes[2].item = 2 /\ nodes[3].item = 2

\* C8: shift() on a list whose forward sequence is x followed by S returns
\* x, leaves S and takes exactly 1 off length(); on an empty list, and only
\* there, it returns absence and the list stays empty.
C8_ShiftRemovesFront ==
  [][op' = "shift" =>
       /\ (ret' = Undef) <=> (toArray(Self) = <<>>)
       /\ toArray(Self) # <<>> =>
            /\ ret' = Head(toArray(Self))
            /\ toArray(Self)' = Tail(toArray(Self))
            /\ length(Self)' = length(Self) - 1
       /\ toArray(Self) = <<>> =>
            /\ toArray(Self)' = <<>>
            /\ length(Self)' = length(Self)
    ]_vars

C8_Witness ==
  /\ op = "shift" /\ ret = 1
  /\ toArray(Self) = <<2, 1>>
  /\ length(Self) = 2

\* C9: pop() on a DoublyLinkedList whose forward sequence is S followed by
\* x returns x, leaves S and takes exactly 1 off length(); on an empty list
\* it returns absence.
C9_PopRemovesBack ==
  [][op' = "pop" =>
       /\ (ret' = Undef) <=> (toArray(Self) = <<>>)
       /\ toArray(Self) # <<>> =>
            /\ ret' = toArray(Self)[Len(toArray(Self))]
            /\ toArray(Self)' = SubSeq(toArray(Self), 1, Len(toArray(Self)) - 1)
            /\ length(Self)' = length(Self) - 1
       /\ toArray(Self) = <<>> =>
            /\ toArray(Self)' = <<>>
            /\ length(Self)' = length(Self)
    ]_vars

C9_Witness ==
  /\ op = "pop" /\ ret = 2
  /\ toArray(Self) = <<1, 2>>
  /\ length(Self) = 2

\* C10: shift() (either variant) and pop() (doubly) on an empty list return
\* absence and change nothing: head, tail, count and every node stay as they
\* were, the list is still empty and iteration yields nothing.
C10_EmptyRemovalIsNoOp ==
  [][(op' \in {"shift", "pop"} /\ empty(Self)) =>
       /\ ret' = Undef
       /\ head' = head /\ tail' = tail /\ count' = count /\ nodes' = nodes
       /\ empty(Self)' /\ length(Self)' = 0 /\ toArray(Self)' = <<>>
    ]_vars

\* a removal from a list that was already empty when it was called, after
\* the list had been filled and drained
C10_Witness ==
  /\ op \in {"shift", "pop"}
  /\ ret = Undef
  /\ Len(nodes) > 0
  /\ head = Nil /\ tail = Nil /\ count = 0

\* C12: for any reachable list of either variant, a new list of the same
\* variant constructed from toArray() of the original has the same forward
\* iteration and the same length as the original.
C12_RoundTrip ==
  LET copy == LinkedList_constructor(variant, toArray(Self))
  IN /\ toArray(copy) = toArray(Self)
     /\ length(copy) = length(Self)

\* a list of three items that lost and gained nodes, copied into fresh nodes
C12_Witness ==
  /\ count = 2
  /\ Len(nodes) = 3
  /\ head # 1
  /\ LinkedList_constructor(variant, toArray(Self)).head = 1
  /\ toArray(LinkedList_constructor(variant, toArray(Self))) = toArray(Self)

\* C13: construction with zero items yields an empty list (head and tail
\* absent, length 0, iteration yields nothing); construction with k >= 1
\* items yields a list of length k whose forward iteration is the items in
\* the given order, first() the first and last() the last item; either way
\* the structural invariants hold, the prev links of a DoublyLinkedList
\* included.
C13_Construction ==
  op = "new" =>
    /\ args = <<>> =>
         /\ head = Nil /\ tail = Nil
         /\ length(Self) = 0 /\ empty(Self)
         /\ toArray(Self) = <<>>
    /\ args # <<>> =>
         /\ length(Self) = Len(args)
         /\ toArray(Self) = args
         /\ first(Self) = args[1]
         /\ last(Self) = args[Len(args)]
    /\ C2_HeadTailCountAgree
    /\ C4_ChainHasCountNodes
    /\ C5_DoublyLinked
    /\ variant = "doubly" => riterator(Self) = Reverse(args)

C13_Witness ==
  /\ op = "new"
  /\ variant = "doubly"
  /\ Len(args) >= 2
  /\ toArray(Self) = args
  /\ nodes[2].prev = 1

\* C17: toArray() and toJSON() each return exactly the items of the nodes a
\* forward traversal from head visits, in that order, length() of them.
C17_ToArrayIsForwardIteration ==
  LET visited == [i \in 1..count |-> nodes[StepNode(i)].item]
  IN /\ \A i \in 1..count : StepNode(i) # Nil
     /\ toArray(Self) = visited
     /\ toJSON(Self) = visited
     /\ Len(toArray(Self)) = length(Self)
     /\ Len(toJSON(Self)) = length(Self)

C17_Witness ==
  /\ count = 2
  /\ op \in {"push", "unshift"}
  /\ Len(nodes) = 3
  /\ toArray(Self) = <<nodes[head].item, nodes[tail].item>>
  /\ toJSON(Self) = toArray(Self)

\* what a caller can see of a list
Observed(L) == <<length(L), empty(L), first(L), last(L), toArray(L)>>

\* the list with the prev of node n overwritten by p
WithPrev(L, n, p) == [L EXCEPT !.nodes[n].prev = p]

\* C18: in every reachable state of a singly linked LinkedList every
\* node's prev is absent, and no result depends on prev: with the prev of
\* any node set to anything, the observers, shift, push and unshift return
\* the same values and leave the same list to observe.
C18_SinglyIgnoresPrev ==
  variant = "singly" =>
    /\ \A n \in 1..Len(nodes) : nodes[n].prev = Nil
    /\ \A n \in 1..Len(nodes), p \in 0..Len(nodes) :
         LET M == WithPrev(Self, n, p)
         IN /\ Observed(M) = Observed(Self)
            /\ LinkedList_shift(M).ret = LinkedList_shift(Self).ret
            /\ Observed(LinkedList_shift(M).list)
                 = Observed(LinkedList_shift(Self).list)
            /\ Observed(LinkedList_push("singly", M, 1, <<2>>))
                 = Observed(LinkedList_push("singly", Self, 1, <<2>>))
            /\ Observed(LinkedList_unshift("singly", M, 1, <<2>>))
                 = Observed(LinkedList_unshift("singly", Self, 1, <<2>>))

C18_Witness ==
  /\ variant = "singly"
  /\ Len(nodes) = 3
  /\ count = 2
  /\ op = "unshift" /\ Len(args) = 2
  /\ \A n \in 1..Len(nodes) : nodes[n].prev = Nil

\* what the scenario states after each step: the list, as script item
\* numbers, and the script item the call returned (0 for absence or for a
\* call that returns no item)
ScenarioLists ==
  << <<1>>, <<2, 1>>, <<2, 1, 3>>, <<2, 1>>, <<4, 2, 1>>, <<4, 2, 1, 3>>,
     <<2, 1, 3>>, <<1, 3>>, <<1>>, <<>>, <<>>, <<>> >>

ScenarioReturns == <<0, 0, 0, 3, 0, 0, 4, 2, 3, 1, 0, 0>>

\* C11: replaying push(1), unshift(2), push(3), pop(), unshift(4), push(3),
\* shift(), shift(), pop(), pop(), shift(), pop() on an empty
\* DoublyLinkedList gives [1], [2,1], [2,1,3], 3 and [2,1], [4,2,1],
\* [4,2,1,3], 4 and [2,1,3], 2 and [1,3], 3 and [1], 1 and [], absence,
\* absence; after every step length, first and last match the list shown
\* and reverse iteration is its reverse.
C11_Scenario ==
  (scenario # <<>> /\ scenario.step > 0) =>
    LET k    == scenario.step
        list == [i \in 1..Len(ScenarioLists[k]) |->
                   scenario.items[ScenarioLists[k][i]]]
    IN /\ toArray(Self) = list
       /\ riterator(Self) = Reverse(list)
       /\ length(Self) = Len(list)
       /\ empty(Self) <=> (list = <<>>)
       /\ first(Self) = IF list = <<>> THEN Undef ELSE list[1]
       /\ last(Self) = IF list = <<>> THEN Undef ELSE list[Len(list)]
       /\ Script[k].op \in {"shift", "pop"} =>
            ret = IF ScenarioReturns[k] = 0 THEN Undef
                  ELSE scenario.items[ScenarioReturns[k]]

\* the whole script replayed with the items 1, 2, 3, 4 of the scenario
C11_Witness ==
  /\ scenario # <<>>
  /\ scenario.items = <<1, 2, 3, 4>>
  /\ scenario.step = Len(Script)
  /\ op = "pop" /\ ret = Undef
  /\ Len(nodes) = 5
  /\ toArray(Self) = <<>>

\* the sequence a complete traversal in the direction of iterator c yields on
\* the list as it is
Complete(c) ==
  IF c.dir = "next" THEN toArray(Self) ELSE Reverse(toArray(Self))

IsPrefix(s, t) == Len(s) <= Len(t) /\ s = SubSeq(t, 1, Len(s))

\* C14: each call that begins an iteration creates a new iterator that
\* starts at the head (tail for riterator()) of the list as it is at that
\* call and leaves the iterators that exist as they are; a step moves one
\* iterator only; so, on a list that is not changed meanwhile, every
\* iterator, however the steps interleave, has yielded a prefix of the
\* complete sequence and all of it once exhausted.
C14_Begin ==
  (BagCardinality(cursors') > BagCardinality(cursors)) =>
     \E c \in BagToSet(cursors') :
       /\ cursors' = cursors (+) SetToBag({c})
       /\ c.out = <<>> /\ ~c.done
       /\ c.ptr = IF c.dir = "next" THEN head ELSE tail

C14_Step ==
  (BagCardinality(cursors') = BagCardinality(cursors) /\ cursors' # cursors) =>
     \E c \in BagToSet(cursors), d \in BagToSet(cursors') :
       cursors' (+) SetToBag({c}) = cursors (+) SetToBag({d})

C14_Yielded ==
  \A c \in BagToSet(cursors) :
    /\ IsPrefix(c.out, Complete(c))
    /\ c.done => c.out = Complete(c)

C14_IndependentCursors ==
  [][C14_Begin /\ C14_Step /\ C14_Yielded']_vars

\* after a change of the list: one iterator exhausted with the whole
\* sequence, another one part of the way
C14_Witness ==
  /\ count >= 2
  /\ Len(nodes) > count
  /\ BagCardinality(cursors) = 2
  /\ \E c, d \in BagToSet(cursors) :
       /\ c.done /\ c.out = Complete(c)
       /\ ~d.done /\ Len(d.out) = 1

\* C15: on a list that is not changed during the traversal an iterator
\* yields the items of the nodes from head to tail (tail to head for a
\* reverse iterator) in link order, never more than length() of them; its
\* pointer is absent exactly when it has yielded length() items, so that
\* the next step signals exhaustion, and it signals exhaustion only then.
C15_IterationIsFinite ==
  \A c \in BagToSet(cursors) :
    LET n == Len(c.out)
    IN /\ n <= length(Self)
       /\ \A i \in 1..n :
            c.out[i] = IF c.dir = "next"
                       THEN nodes[StepNode(i)].item
                       ELSE nodes[StepNode(count + 1 - i)].item
       /\ n < count =>
            c.ptr = IF c.dir = "next" THEN StepNode(n + 1)
                    ELSE StepNode(count - n)
       /\ (c.ptr = Nil) <=> (n = length(Self))
       /\ c.done => n = length(Self)

C15_Witness ==
  /\ count = 3
  /\ variant = "doubly"
  /\ \E c, d \in BagToSet(cursors) :
       /\ c.dir = "next" /\ c.done /\ Len(c.out) = 3
       /\ d.dir = "prev" /\ d.done /\ Len(d.out) = 3

\* C16: length(), empty(), first(), last(), toArray(), toJSON(), creating
\* an iterator and stepping it leave head, tail, count and every node as
\* they were.
C16_ObserversDoNotMutate ==
  [][(cursors' # cursors \/ op' = "observe") =>
        /\ nodes' = nodes
        /\ head' = head /\ tail' = tail /\ count' = count
    ]_vars

C16_Witness ==
  /\ op = "observe"
  /\ count >= 2
  /\ ret.toArray = toArray(Self)
  /\ \E c, d \in BagToSet(cursors) : c.done /\ ~d.done /\ d.out # <<>>

\* C20: SetPlus.equals(collection) returns true exactly when this set and
\* the collection contain the same elements, whether the collection is a
\* Set, an array or a one-shot iterator.
C20_SetEquals ==
  (result # <<>> /\ result.method = "equals") =>
     (result.value <=> (recv = Range(colls[1].elems)))

\* the contents of a Map: the function from its keys to their values
Entries(m) == [k \in {m[i].key : i \in 1..Len(m)} |-> Map_get(m, k)]

\* C19: MapPlus.equals(other) returns true exactly when the two maps have
\* the same set of keys and equal values under every key, whatever the order
\* the entries were inserted in.
C19_MapEquals ==
  (result # <<>> /\ result.method = "equals") =>
     (result.value <=> (Entries(recv) = Entries(colls[1])))

\* a call of the named method has just returned
Called(method) == result = <<>> /\ result' # <<>> /\ result'.method = method

\* the elements of a fresh collection
ElemsOf(coll) == Range(coll.elems)

\* this \cup A \cup B \cup ... and this \cap A \cap B \cap ...
UnionOf(this, cs) == this \cup UNION {ElemsOf(cs[i]) : i \in 1..Len(cs)}
InterOf(this, cs) == {x \in this : \A i \in 1..Len(cs) : x \in ElemsOf(cs[i])}

ReIterable(cs) == \A i \in 1..Len(cs) : cs[i].kind # "iterator"
AllSets(cs) == \A i \in 1..Len(cs) : cs[i].kind = "set"

\* C21: xor(A, B, ...) returns a new set equal to the union of this set and
\* the collections minus their common intersection, for any number of
\* re-iterable collections.
C21_XorIsUnionMinusIntersection ==
  [][(Called("xor") /\ ReIterable(colls)) =>
       /\ result'.value = UnionOf(recv, colls) \ InterOf(recv, colls)
       /\ ~result'.isThis]_vars

C21_Witness ==
  /\ result # <<>> /\ result.method = "xor"
  /\ recv = {1, 2} /\ Len(colls) = 2
  /\ colls[1].kind = "set" /\ colls[1].elems = <<1>>
  /\ colls[2].kind = "array" /\ colls[2].elems = <<1>>
  /\ result.value = {2}

\* a \Delta b, and this \Delta A \Delta B \Delta ... folded from the left
SymDiff(a, b) == (a \ b) \cup (b \ a)

RECURSIVE SymDiffOf(_, _)
SymDiffOf(this, cs) ==
  IF cs = <<>> THEN this
  ELSE SymDiffOf(SymDiff(this, ElemsOf(cs[1])), Tail(cs))

C23_Intersection ==
  [][Called("intersection") =>
       /\ result'.value = InterOf(recv, colls)
       /\ ~result'.isThis]_vars

\* the early exit was taken: the second collection, a one-shot iterator, was
\* never read
C23_Witness ==
  /\ result # <<>> /\ result.method = "intersection"
  /\ recv = {1} /\ Len(colls) = 2
  /\ colls[1].kind = "array" /\ colls[1].elems = <<2>>
  /\ colls[2].kind = "iterator" /\ colls[2].elems = <<1>> /\ colls[2].pos = 0
  /\ result.value = {}

\* C24: union, intersection, difference and xor return a new set and leave
\* the receiver and every Set passed as an argument unchanged; unionInPlace
\* makes the receiver the union of itself and the collections and returns
\* the receiver itself.
C24_Frames ==
  [][(result = <<>> /\ result' # <<>>) =>
       /\ \A i \in 1..Len(colls) :
            colls[i].kind = "set" => colls'[i] = colls[i]
       /\ result'.method \in {"union", "intersection", "difference", "xor"} =>
            recv' = recv /\ ~result'.isThis
       /\ result'.method = "unionInPlace" =>
            /\ recv' = UnionOf(recv, colls)
            /\ result'.isThis /\ result'.value = recv']_vars

C24_Witness ==
  /\ result # <<>> /\ result.method = "unionInPlace" /\ result.isThis
  /\ Len(colls) = 2
  /\ colls[1].kind = "set" /\ colls[1].elems = <<1>>
  /\ colls[2].kind = "array" /\ colls[2].elems = <<2>>
  /\ recv = {1, 2} /\ result.value = {1, 2}

KeysOf(m) == {m[i].key : i \in 1..Len(m)}

\* C25: merge(other, overwrite) adds every entry of other whose key is not
\* in this map; a key in both keeps this map's value unless overwrite is
\* true, when it takes other's value; other is unchanged and the receiver is
\* returned.
C25_Merge ==
  [][Called("merge") =>
       LET other == colls[1]
       IN /\ Entries(recv') =
               [k \in KeysOf(recv) \cup KeysOf(other) |->
                  IF k \in KeysOf(other)
                     /\ (result'.overwrite \/ k \notin KeysOf(recv))
                  THEN Map_get(other, k) ELSE Map_get(recv, k)]
          /\ colls' = colls
          /\ result'.value = This]_vars

C25_Witness ==
  /\ result # <<>> /\ result.method = "merge" /\ result.overwrite
  /\ colls = << << [key |-> 1, value |-> Undefined],
                   [key |-> 2, value |-> Number(1)] >> >>
  /\ recv = colls[1]

\* C26: addIfAbsent(key, value) adds the entry and returns the value when
\* the key is not in the map; when the key is in the map it leaves the map
\* unchanged and returns the existing value.
C26_AddIfAbsent ==
  [][Called("addIfAbsent") =>
       IF Map_has(recv, result'.key)
       THEN recv' = recv /\ result'.value = Map_get(recv, result'.key)
       ELSE /\ recv' = Append(recv, [key |-> result'.key, value |-> result'.arg])
            /\ result'.value = result'.arg]_vars

\* the values of a map in insertion order, and those that are objects
ValuesOf(m) == [i \in 1..Len(m) |-> m[i].value]
IsRecord(v) == v.type = "object"

\* the objects of the map under each value of the property, in map order
Grouped(m, property) ==
  LET objs == SelectSeq(ValuesOf(m), IsRecord)
  IN [pv \in {GetProp(objs[i], property) : i \in 1..Len(objs)} |->
        Array(SelectSeq(objs, LAMBDA v : GetProp(v, property) = pv))]

\* C27: groupBy(property) skips every value that is not an object without
\* signalling an error, groups the other values by their value of the
\* property, and leaves the receiver unchanged.
C27_GroupBy ==
  [][Called("groupBy") =>
       /\ ~result'.threw
       /\ Entries(result'.value) = Grouped(recv, result'.property)
       /\ recv' = recv]_vars

\* C28: a DoublyLinkedList and a LinkedList built from the same items and
\* driven by the same push, unshift and shift calls return the same values
\* from shift(), length(), empty(), first() and last() and yield the same
\* forward iteration after every step.
C28_DoublyRefinesSingly ==
  LET twin == scenario.twin
  IN /\ ret = scenario.ret
     /\ length(Self) = length(twin)
     /\ empty(Self) = empty(twin)
     /\ first(Self) = first(twin)
     /\ last(Self) = last(twin)
     /\ toArray(Self) = toArray(twin)

C28_Witness ==
  /\ op = "shift" /\ ret = 2 /\ scenario.ret = 2
  /\ Len(nodes) = 3
  /\ toArray(Self) = <<1, 2>>
  /\ toArray(scenario.twin) = <<1, 2>>

\* push(i1); ...; push(ik) and unshift(ik); ...; unshift(i1)
RECURSIVE PushEach(_, _, _)
PushEach(v, L, items) ==
  IF items = <<>> THEN L
  ELSE PushEach(v, LinkedList_push(v, L, items[1], <<>>), Tail(items))

RECURSIVE UnshiftEachFromLast(_, _, _)
UnshiftEachFromLast(v, L, items) ==
  IF items = <<>> THEN L
  ELSE UnshiftEachFromLast(v, LinkedList_unshift(v, L, items[Len(items)], <<>>),
                           SubSeq(items, 1, Len(items) - 1))

\* the same list: sequence, length and ends, and for the doubly linked
\* variant the same walk along prev from the tail
SameList(v, A, B) ==
  /\ toArray(A) = toArray(B)
  /\ length(A) = length(B)
  /\ first(A) = first(B) /\ last(A) = last(B)
  /\ v = "doubly" => riterator(A) = riterator(B)

\* C29: from any reachable state of either variant, push(i1,...,ik) leaves
\* the same list as push(i1); ...; push(ik) (here the very same nodes and
\* links), and unshift(i1,...,ik) leaves the same list as unshift(ik); ...;
\* unshift(i1).
C29_BulkIsRepeatedSingle ==
  [][/\ op' = "push" =>
          /\ Self' = PushEach(variant, Self, args')
          /\ SameList(variant, Self', PushEach(variant, Self, args'))
     /\ op' = "unshift" =>
          SameList(variant, Self', UnshiftEachFromLast(variant, Self, args'))]_vars

C29_Witness ==
  /\ op = "unshift" /\ args = <<1, 2>> /\ variant = "doubly"
  /\ toArray(Self) = <<1, 2, 2>>
  /\ riterator(Self) = <<2, 2, 1>>

\* C30: when a DoublyLinkedList whose forward sequence is S of length n is
\* emptied by exactly n calls, each shift() or pop() in any interleaving, no
\* call returns absence, the values of the shift calls in call order
\* followed by the values of the pop calls in reverse call order are S, and
\* the list is empty afterwards: head and tail absent, count 0.
C30_DrainReturnsS ==
  scenario.draining =>
    /\ \A i \in 1..Len(scenario.shifted) : scenario.shifted[i] # Undef
    /\ \A i \in 1..Len(scenario.popped) : scenario.popped[i] # Undef
    /\ Removals = Len(scenario.S) =>
         /\ scenario.shifted \o Reverse(scenario.popped) = scenario.S
         /\ head = Nil /\ tail = Nil /\ count = 0

C30_Witness ==
  /\ scenario.draining
  /\ scenario.S = <<1, 2, 1>>
  /\ scenario.shifted = <<1>>
  /\ scenario.popped = <<1, 2>>
  /\ op = "pop" /\ count = 0

\* C31: adding and removing at the same end are inverse.  From any
\* reachable state with forward sequence S, unshift(x) followed by shift()
\* returns x and restores the forward sequence and the length (either
\* variant); on a DoublyLinkedList push(x) followed by pop() returns x and
\* restores the forward sequence, the reverse sequence and the length.
C31_SameEndInverse ==
  [][/\ scenario.pending = "unshift" /\ scenario'.pending = "none" =>
          /\ ret' = scenario.x
          /\ toArray(Self') = scenario.S
          /\ length(Self') = scenario.n
     /\ scenario.pending = "push" /\ scenario'.pending = "none" =>
          /\ ret' = scenario.x
          /\ toArray(Self') = scenario.S
          /\ riterator(Self') = scenario.R
          /\ length(Self') = scenario.n]_vars

\* push(2) on the doubly linked list 1, 2 has been taken back by pop()
C31_Witness ==
  /\ variant = "doubly"
  /\ scenario.pending = "none" /\ scenario.x = 2
  /\ scenario.S = <<1, 2>> /\ scenario.R = <<2, 1>>
  /\ op = "pop" /\ ret = 2
  /\ Len(nodes) = 3 /\ nodes[3].item = 2
  /\ toArray(Self) = <<1, 2>> /\ riterator(Self) = <<2, 1>>

\* C32: a reverse iterator object is a single-pass cursor.  The object
\* returned by one riterator() call is its own iterator: once it has been
\* traversed to exhaustion, iterating that same object again yields no
\* items (its first step signals exhaustion), whereas a new riterator() call
\* yields the full reverse sequence again.
C32_ReverseIteratorIsSinglePass ==
  \A c \in BagToSet(cursors) :
    /\ c.loops = 2 => c.out = <<>> /\ c.ptr = Nil
    /\ c.loops = 1 /\ c.done => c.out = Reverse(toArray(Self))

\* one object gave 2, 1 and then nothing in its second loop; a new object
\* made after that gave 2, 1 again
C32_Witness ==
  /\ toArray(Self) = <<1, 2>>
  /\ cursors = SetToBag({
        [dir |-> "prev", ptr |-> Nil, out |-> <<>>, done |-> TRUE, loops |-> 2],
        [dir |-> "prev", ptr |-> Nil, out |-> <<2, 1>>, done |-> TRUE,
         loops |-> 1]})

\* C33: exhaustion is permanent.  Once a forward or reverse cursor has
\* signalled exhaustion, every later step of that cursor also signals
\* exhaustion and yields no item, whatever push, unshift, shift and pop
\* calls are made on the list in between.
C33_ExhaustionIsPermanent ==
  [][scenario.it # <<>> /\ scenario.it[1].done /\ scenario'.it # <<>> =>
       /\ scenario'.it[1].done
       /\ scenario'.it[1].out = scenario.it[1].out
       /\ op' = "next" => ret' = [done |-> TRUE, value |-> Undef]]_vars

\* a forward cursor gave 1, 2 and signalled exhaustion, an item was then
\* pushed, and the step after that signalled exhaustion again
C33_Witness ==
  /\ scenario.it # <<>>
  /\ scenario.it[1].dir = "next" /\ scenario.it[1].done
  /\ scenario.it[1].out = <<1, 2>>
  /\ scenario.late /\ "push" \in scenario.calls
  /\ toArray(Self) = <<1, 2, 1>>
  /\ op = "next" /\ ret = [done |-> TRUE, value |-> Undef]

\* C34: a forward cursor is unaffected by removals at the front.  If a
\* forward cursor is made when the list (either variant) has forward
\* sequence S and only shift() calls are made between its steps, it yields
\* exactly S and then signals exhaustion, items that were shifted off before
\* it reached them included; a reverse cursor with only pop() calls between
\* its steps yields exactly the reverse of S.
C34_CursorUnaffectedByRemovalAtItsEnd ==
  scenario.it # <<>> =>
    LET c == scenario.it[1]
    IN /\ c.dir = "next" /\ scenario.calls \subseteq {"shift"} =>
            /\ IsPrefix(c.out, scenario.S)
            /\ c.done => c.out = scenario.S
       /\ c.dir = "prev" /\ scenario.calls \subseteq {"pop"} =>
            /\ IsPrefix(c.out, Reverse(scenario.S))
            /\ c.done => c.out = Reverse(scenario.S)

\* the list 1, 2 was emptied by shift() calls before the forward cursor
\* made on it gave 2
C34_Witness ==
  /\ scenario.it # <<>>
  /\ scenario.it[1].dir = "next"
  /\ scenario.S = <<1, 2>> /\ scenario.calls = {"shift"}
  /\ count = 0 /\ head = Nil
  /\ op = "next" /\ ret = [done |-> FALSE, value |-> 2]
  /\ scenario.it[1].out = <<1, 2>>

\* the items of those push calls, in call order, that `keep` marks
RECURSIVE ItemsOfPushes(_, _)
ItemsOfPushes(ps, keep) ==
  IF ps = <<>> THEN <<>>
  ELSE (IF keep[1] THEN ps[1].items ELSE <<>>)
       \o ItemsOfPushes(Tail(ps), Tail(keep))

\* when push call p was made the cursor had given the item of the node
\* that was the tail at the time of the call
GaveTailOfThen(p) ==
  \E i \in 1..p.yields : scenario.yields[i].node = p.tail

\* when push call p was made the cursor had given the item of a node that
\* was the tail at the time it was given
GaveATail(p) ==
  \E i \in 1..p.yields : scenario.yields[i].wasTail

NotGaveTailOfThen ==
  [i \in 1..Len(scenario.pushed) |-> ~GaveTailOfThen(scenario.pushed[i])]

NotGaveATail ==
  [i \in 1..Len(scenario.pushed) |-> ~GaveATail(scenario.pushed[i])]

\* a forward cursor made on a non-empty list, with only push calls since
PushesOnly ==
  /\ scenario.it # <<>>
  /\ scenario.it[1].dir = "next"
  /\ scenario.S # <<>>
  /\ scenario.calls \subseteq {"push"}

\* C35: a forward cursor moves past a node before yielding that node's
\* item.  With only push() calls between the steps of a forward cursor made
\* on a non-empty list, items pushed before the cursor has yielded the item
\* of the then-current tail are all yielded by it in order, whereas items
\* pushed after it has yielded the then-current tail's item are never
\* yielded by it (its next step signals exhaustion), even though it had not
\* yet signalled exhaustion when they were pushed.
C35_PushedBeforeTailOfThenIsYielded ==
  PushesOnly =>
    LET c == scenario.it[1]
        E == scenario.S \o ItemsOfPushes(scenario.pushed, NotGaveTailOfThen)
    IN /\ IsPrefix(c.out, E)
       /\ c.done => c.out = E

\* C35 (amended): the same with "the item of a node that was the tail when
\* the cursor yielded it" for "the item of the then-current tail": items
\* pushed before the cursor has yielded such an item are all yielded by it
\* in order, items pushed after are never yielded by it.
C35_PushedBeforeATailIsYielded ==
  PushesOnly =>
    LET c == scenario.it[1]
        E == scenario.S \o ItemsOfPushes(scenario.pushed, NotGaveATail)
    IN /\ IsPrefix(c.out, E)
       /\ c.done => c.out = E

\* on the list 1: push(2) while the cursor had given nothing, the cursor
\* gave 1 and 2, push(1) after that, and the next step found nothing
C35_Witness ==
  /\ PushesOnly
  /\ scenario.S = <<1>>
  /\ Len(scenario.pushed) = 2
  /\ scenario.pushed[1].yields = 0 /\ scenario.pushed[2].yields = 2
  /\ ~scenario.late
  /\ toArray(Self) = <<1, 2, 1>>
  /\ scenario.it[1].out = <<1, 2>> /\ scenario.it[1].done
  /\ op = "next"

\* the nodes a node points at
Links(ns, n) == {ns[n].next, ns[n].prev} \ {Nil}

\* the nodes that can be reached from the nodes of R along next and prev
RECURSIVE Closure(_, _)
Closure(ns, R) ==
  LET R1 == R \cup UNION {Links(ns, n) : n \in R}
  IN IF R1 = R THEN R ELSE Closure(ns, R1)

\* the nodes reachable from head and tail
Reachable(L) == Closure(L.nodes, {L.head, L.tail} \ {Nil})

\* the nodes a forward traversal from ptr visits, in order
RECURSIVE ForwardNodes(_, _, _)
ForwardNodes(ns, ptr, fuel) ==
  IF ptr = Nil \/ fuel = 0 THEN <<>>
  ELSE <<ptr>> \o ForwardNodes(ns, ns[ptr].next, fuel - 1)

NodesOf(L) == ForwardNodes(L.nodes, L.head, Len(L.nodes))

\* s without the elements that are not in K
RECURSIVE Restrict(_, _)
Restrict(s, K) ==
  IF s = <<>> THEN <<>>
  ELSE (IF s[1] \in K THEN <<s[1]>> ELSE <<>>) \o Restrict(Tail(s), K)

\* C36: nodes leave the list only through removals.  push and unshift never
\* make a node that was in the list unreachable and never reorder existing
\* items; shift() makes exactly the former head node unreachable from head
\* and tail, and pop() exactly the former tail node; no operation changes
\* the item stored in any node.
C36_NodesLeaveOnlyByRemoval ==
  [][/\ op' \in {"push", "unshift"} =>
          /\ Reachable(Self) \subseteq Reachable(Self')
          /\ Restrict(NodesOf(Self'), Reachable(Self)) = NodesOf(Self)
     /\ op' = "shift" =>
          /\ Reachable(Self') \subseteq Reachable(Self)
          /\ Reachable(Self) \ Reachable(Self') = {head} \ {Nil}
     /\ op' = "pop" =>
          /\ Reachable(Self') \subseteq Reachable(Self)
          /\ Reachable(Self) \ Reachable(Self') = {tail} \ {Nil}
     /\ \A n \in 1..Len(nodes) : nodes'[n].item = nodes[n].item]_vars

\* the third node of a doubly linked list has been popped off: nodes 1 and
\* 2 are what can still be reached
C36_Witness ==
  /\ variant = "doubly" /\ op = "pop"
  /\ Len(nodes) = 3 /\ ret = nodes[3].item
  /\ NodesOf(Self) = <<1, 2>>
  /\ Reachable(Self) = {1, 2}

\* the i-th node of the chain held by `scenario`
ChainNode(i) == NthNext(scenario.first, i - 1)

\* C37: chain construction from k >= 1 items returns (first, last, count)
\* with count = k, the k fresh nodes holding the items in the given order
\* linked by next from first to last, and last.next absent; the doubly
\* linked variant also sets each non-first node's prev to the node built
\* just before it and leaves first.prev absent, while the singly linked
\* variant sets no prev at all.
C37_CreateChain ==
  scenario.pending =>
    LET k == Len(args)
    IN /\ k >= 1 /\ scenario.count = k
       /\ Len(nodes) = scenario.base + k
       /\ \A i \in 1..k :
            /\ ChainNode(i) \in (scenario.base + 1)..Len(nodes)
            /\ nodes[ChainNode(i)].item = args[i]
            /\ \A j \in 1..k : i # j => ChainNode(i) # ChainNode(j)
       /\ ChainNode(k) = scenario.last
       /\ nodes[scenario.last].next = Nil
       /\ variant = "doubly" =>
            /\ nodes[scenario.first].prev = Nil
            /\ \A i \in 2..k : nodes[ChainNode(i)].prev = ChainNode(i - 1)
       /\ variant = "singly" =>
            \A i \in 1..k : nodes[ChainNode(i)].prev = Nil

\* the chain of 2, 1 built for an unshift on a doubly linked list that
\* holds one node
C37_Witness ==
  /\ scenario.pending /\ scenario.by = "unshift"
  /\ variant = "doubly" /\ count = 1 /\ scenario.base = 1
  /\ args = <<2, 1>>
  /\ scenario.first = 2 /\ scenario.last = 3 /\ scenario.count = 2
  /\ nodes[3].prev = 2 /\ nodes[2].next = 3

====
